---- MODULE Spec2Model ----
(***************************************************************************)
(* Model of the HopeShot scoring pipeline (backend/services/                *)
(* gemini_service.py and the /api/news handler of backend/main.py).         *)
(*                                                                         *)
(* Time is the reading of datetime.now(), in whole seconds since the        *)
(* midnight that starts day 0.  The asyncio event loop is cooperative: a    *)
(* coroutine runs until it awaits, so `running` names the invocation that   *)
(* holds the loop (0 when the loop is free) and only the clock moves while  *)
(* an invocation runs.                                                      *)
(***************************************************************************)
EXTENDS Integers, Sequences, FiniteSets, TLC

VARIABLES now, ticks, lim, hist, chk, pc, loc, ret, svc, running

(* one batch of the scorer at the level of its records *)
VARIABLES bat_in, bat_pc, bat_results, bat_ret

(* the scoring service and its callers *)
scoringVars == <<now, ticks, lim, hist, chk, pc, loc, ret, svc, running>>

(* the record-level batch *)
batchVars == <<bat_in, bat_pc, bat_results, bat_ret>>

(* the articles table, and the /api/news requests that read and write it *)
VARIABLES store, rq

storeVars == <<store, rq>>

(* the source configuration of NewsService, and one fetch_unified_news call *)
VARIABLES cfg, fq

fetchVars == <<cfg, fq>>

(* the last call of a duplicate check against the stored articles *)
VARIABLES dq

dedupVars == <<dq>>

(* one run of the geographic post-processing and the locations table *)
VARIABLES geo, locations

geoVars == <<geo, locations>>

(* the AFP client: its tokens, the clock it reads, and its last fetch_news *)
VARIABLES afp

afpVars == <<afp>>

(* get_news of main.py as a whole: the articles table it reads and writes,
   the path it took and the response it returned *)
VARIABLES api
apiVars == <<api>>

moreVars == <<geoVars, afpVars, apiVars>>

(* everything that is not the scoring service *)
otherVars == <<batchVars, storeVars, fetchVars, dedupVars, moreVars>>

vars == <<scoringVars, otherVars>>

(***************************************************************************)
(* Bounds of the model                                                     *)
(***************************************************************************)
NumInv == 2
MaxTicks == 3
MaxCalls == 3
QuotaMaxCalls == 15
QuotaMaxTicks == 2
StartClock == 86279

NumReq == 2
MaxStoreFailures == 1

Inv == 1..NumInv
Svc == 1..NumInv
Req == 1..NumReq

(***************************************************************************)
(* Program constants (GeminiService.__init__)                              *)
(***************************************************************************)
requests_per_minute == 14
requests_per_day == 900
tokens_per_minute == 220000
max_articles_per_batch == 100
target_batch_interval == 120
default_estimated_tokens == 10000

SecondsPerMinute == 60
MinutesPerHour == 60
SecondsPerDay == 86400

(* datetime.now().minute, datetime.now().date() and the absolute minute *)
MinuteOf(t) == (t \div SecondsPerMinute) % MinutesPerHour
DateOf(t) == t \div SecondsPerDay
WallMinute(t) == t \div SecondsPerMinute

Max(a, b) == IF a >= b THEN a ELSE b
Min(a, b) == IF a <= b THEN a ELSE b

(* None is the empty sequence, a value v is <<v>> *)
None == <<>>
Some(v) == <<v>>

(***************************************************************************)
(* Rate limiter                                                            *)
(***************************************************************************)
NewLimiter(t) ==
    [ current_minute       |-> MinuteOf(t),
      requests_this_minute |-> 0,
      tokens_this_minute   |-> 0,
      daily_requests       |-> 0,
      last_request_time    |-> None,
      last_reset_date      |-> DateOf(t) ]

(* a variant that clears the daily count together with the minute counts *)
reset_counters_on_minute_only(l, t) ==
    IF MinuteOf(t) # l.current_minute
    THEN [l EXCEPT !.current_minute = MinuteOf(t),
                   !.requests_this_minute = 0,
                   !.tokens_this_minute = 0,
                   !.daily_requests = 0,
                   !.last_reset_date = DateOf(t)]
    ELSE l

reset_counters_if_needed(l, t) ==
    LET l1 == IF MinuteOf(t) # l.current_minute
              THEN [l EXCEPT !.current_minute = MinuteOf(t),
                             !.requests_this_minute = 0,
                             !.tokens_this_minute = 0]
              ELSE l
    IN  IF DateOf(t) > l1.last_reset_date
        THEN [l1 EXCEPT !.daily_requests = 0, !.last_reset_date = DateOf(t)]
        ELSE l1

(* time_since_last: None, or the seconds since last_request_time *)
time_since_last(l, t) ==
    IF l.last_request_time # None THEN Some(t - l.last_request_time[1]) ELSE None

(* a variant that tests the elapsed time for truth, as the wait does *)
can_proceed_timing_truthy(l, t) ==
    IF l.last_request_time # None /\ (t - l.last_request_time[1]) # 0
    THEN (t - l.last_request_time[1]) >= target_batch_interval
    ELSE TRUE

can_proceed_timing(l, t) ==
    IF l.last_request_time # None
    THEN (t - l.last_request_time[1]) >= target_batch_interval
    ELSE TRUE

requests_ok(l) == l.requests_this_minute < requests_per_minute
tokens_ok(l, est) == (l.tokens_this_minute + est) <= tokens_per_minute
daily_ok(l) == l.daily_requests < requests_per_day

(* a variant that waits for the daily quota: the seconds to the next day *)
seconds_until_next_day(l, t) ==
    SecondsPerDay - (t % SecondsPerDay)

(* the value of the `x if time_since_last else 0` expression: both None and
   an elapsed time of 0 are falsy *)
seconds_until_next_allowed(l, t) ==
    LET tsl == time_since_last(l, t)
    IN  IF tsl # None /\ tsl[1] # 0
        THEN Max(0, target_batch_interval - tsl[1])
        ELSE 0

(* the dict returned by can_make_request, evaluated on the limiter as it is
   after _reset_counters_if_needed *)
can_make_request(l, t, est) ==
    [ can_proceed |-> can_proceed_timing(l, t) /\ requests_ok(l)
                        /\ tokens_ok(l, est) /\ daily_ok(l),
      time_since_last_request |-> time_since_last(l, t),
      seconds_until_next_allowed |-> seconds_until_next_allowed(l, t) ]

record_request(l, t, actual_tokens) ==
    [l EXCEPT !.requests_this_minute = @ + 1,
              !.tokens_this_minute = @ + actual_tokens,
              !.daily_requests = @ + 1,
              !.last_request_time = Some(t)]

(***************************************************************************)
(* History variables: what really happened on each service.  They are      *)
(* written by the actions and read only by the properties.                 *)
(***************************************************************************)
NewHist(t) ==
    [ issued          |-> 0,      \* generate_content calls issued
      recorded        |-> 0,      \* record_request calls made
      scoring_calls   |-> 0,      \* calls issued by analyze_articles_batch
      last_call_at    |-> None,   \* when the latest scoring call was issued
      last_gap        |-> None,   \* seconds between the latest two scoring calls
      calls_minute    |-> WallMinute(t),
      calls_in_minute |-> 0,      \* scoring calls issued in wall minute calls_minute
      calls_day       |-> DateOf(t),
      calls_in_day    |-> 0,      \* scoring calls issued on date calls_day
      reset_minute_at |-> WallMinute(t),  \* wall minute of the last minute reset
      reset_day_at    |-> DateOf(t),      \* date of the last daily reset
      last_record_at  |-> None ]  \* when record_request last ran

IssueScoringCall(h, t) ==
    [h EXCEPT !.issued = @ + 1,
              !.scoring_calls = @ + 1,
              !.last_call_at = Some(t),
              !.last_gap = IF h.last_call_at = None THEN None
                           ELSE Some(t - h.last_call_at[1]),
              !.calls_minute = WallMinute(t),
              !.calls_in_minute = IF WallMinute(t) = h.calls_minute THEN @ + 1 ELSE 1,
              !.calls_day = DateOf(t),
              !.calls_in_day = IF DateOf(t) = h.calls_day THEN @ + 1 ELSE 1]

HistAfterReset(h, l, t) ==
    [h EXCEPT !.reset_minute_at = IF MinuteOf(t) # l.current_minute
                                  THEN WallMinute(t) ELSE @,
              !.reset_day_at = IF DateOf(t) > l.last_reset_date THEN DateOf(t) ELSE @]

(* What one admission check on service s saw and answered, at time `now` *)
CheckRecord(s, est, who, usage) ==
    LET l1 == reset_counters_if_needed(lim[s], now)
    IN  [ at        |-> now,
          who       |-> who,      \* the caller
          usage     |-> usage,    \* the dict get_usage_stats returned, if it was the caller
          est       |-> est,
          result    |-> can_make_request(l1, now, est),
          timing    |-> can_proceed_timing(l1, now),
          requests_ok |-> requests_ok(l1),
          tokens_ok |-> tokens_ok(l1, est),
          daily_ok  |-> daily_ok(l1),
          requests_at_eval |-> l1.requests_this_minute,
          tokens_at_eval   |-> l1.tokens_this_minute,
          daily_at_eval    |-> l1.daily_requests,
          minute_changed   |-> WallMinute(now) # hist[s].reset_minute_at,
          day_changed      |-> DateOf(now) # hist[s].reset_day_at,
          issued    |-> hist[s].issued,
          recorded  |-> hist[s].recorded,
          last_record_at |-> hist[s].last_record_at ]

(***************************************************************************)
(* analyze_articles_batch                                                  *)
(***************************************************************************)
IdleLoc ==
    [ n |-> 0, np |-> 0, batch_start |-> 0, total_batches |-> 0,
      total_tokens_used |-> 0, results |-> <<>>, status |-> None,
      wake |-> 0, seen |-> 0 ]

BatchSize(l) == Min(max_articles_per_batch, l.n - l.batch_start)

(* estimated_tokens = batch_size * 150 * len(prompt_configs) + 2000 *)
EstimatedTokens(batch_size, np) == batch_size * 150 * np + 2000

ErrorResult(msg) == [status |-> "error", message |-> msg]

(* invocations that hold a batch between its admission check and its record *)
InBatch(s) == {j \in Inv : svc[j] = s /\ pc[j] \in {"sleep", "call", "record"}}

(* Entry of analyze_articles_batch(articles) with n articles and np active
   prompts: the two early returns, or the batch loop is entered *)
Enter(i, n, np) ==
    IF n = 0
    THEN /\ ret' = [ret EXCEPT ![i] = Some(ErrorResult("No articles provided"))]
         /\ pc' = [pc EXCEPT ![i] = "done"]
         /\ loc' = [loc EXCEPT ![i] = IdleLoc]
         /\ UNCHANGED running
    ELSE IF np = 0
    THEN /\ ret' = [ret EXCEPT ![i] = Some(ErrorResult("No active prompts found"))]
         /\ pc' = [pc EXCEPT ![i] = "done"]
         /\ loc' = [loc EXCEPT ![i] = IdleLoc]
         /\ UNCHANGED running
    ELSE /\ ret' = [ret EXCEPT ![i] = None]
         /\ pc' = [pc EXCEPT ![i] = "check"]
         /\ loc' = [loc EXCEPT ![i] =
                       [IdleLoc EXCEPT !.n = n, !.np = np,
                                       !.results = [p \in 1..np |-> <<>>]]]
         /\ running' = i

(* analyze_articles_batch called on the service the invocation holds *)
Begin(i, Ns, NPs) ==
    /\ running = 0
    /\ pc[i] = "idle"
    /\ \E n \in Ns, np \in NPs : Enter(i, n, np)
    /\ UNCHANGED <<now, ticks, lim, hist, chk, svc>>
    /\ UNCHANGED otherVars

(* get_news, from the return of fetch_unified_news to the first await of the
   analysis: with articles in the result it constructs its own
   GeminiService(), keeps the articles whose URL is not stored (k of them)
   and, when any is left, calls analyze_articles_batch on them *)
GetNews(i, Ks, NPs) ==
    /\ running = 0
    /\ pc[i] = "idle"
    /\ svc' = [svc EXCEPT ![i] = i]
    /\ lim' = [lim EXCEPT ![i] = NewLimiter(now)]
    /\ hist' = [hist EXCEPT ![i] = NewHist(now)]
    /\ chk' = [chk EXCEPT ![i] = None]
    /\ \E k \in Ks, np \in NPs :
         IF k = 0
         THEN /\ pc' = [pc EXCEPT ![i] = "done"]
              /\ UNCHANGED <<loc, ret, running>>
         ELSE Enter(i, k, np)
    /\ UNCHANGED <<now, ticks>>
    /\ UNCHANGED otherVars

(* Top of the batch loop: total_batches += 1, the token estimate, the
   admission check, and the wait: asyncio.sleep(wait_time + 1) when the check
   fails and seconds_until_next_allowed > 0.  Nothing is rechecked after the
   sleep and no branch leaves the loop. *)
CheckStep(i, maxCalls) ==
    LET s   == svc[i]
        est == EstimatedTokens(BatchSize(loc[i]), loc[i].np)
        c   == CheckRecord(s, est, "analyze_articles_batch", None)
        st  == c.result
        wait_time == st.seconds_until_next_allowed
        sleeps == ~st.can_proceed /\ wait_time > 0
    IN  /\ running = i
        /\ pc[i] = "check"
        /\ hist[s].issued + Cardinality(InBatch(s)) < maxCalls
        /\ lim' = [lim EXCEPT ![s] = reset_counters_if_needed(lim[s], now)]
        /\ hist' = [hist EXCEPT ![s] = HistAfterReset(hist[s], lim[s], now)]
        /\ chk' = [chk EXCEPT ![s] = Some(c)]
        /\ loc' = [loc EXCEPT ![i].total_batches = @ + 1,
                              ![i].status = Some(st),
                              ![i].seen = hist[s].recorded,
                              ![i].wake = IF sleeps THEN now + wait_time + 1 ELSE now]
        /\ pc' = [pc EXCEPT ![i] = IF sleeps THEN "sleep" ELSE "call"]
        /\ running' = IF sleeps THEN 0 ELSE i
        /\ UNCHANGED <<now, ticks, ret, svc>>
        /\ UNCHANGED otherVars

(* asyncio.sleep returns once its delay has passed and the loop is free *)
Wake(i) ==
    /\ running = 0
    /\ pc[i] = "sleep"
    /\ now >= loc[i].wake
    /\ pc' = [pc EXCEPT ![i] = "call"]
    /\ running' = i
    /\ UNCHANGED <<now, ticks, lim, hist, chk, loc, ret, svc>>
    /\ UNCHANGED otherVars

(* self.model.generate_content(combined_prompt): the request leaves *)
CallStep(i) ==
    /\ running = i
    /\ pc[i] = "call"
    /\ hist' = [hist EXCEPT ![svc[i]] = IssueScoringCall(hist[svc[i]], now)]
    /\ pc' = [pc EXCEPT ![i] = "record"]
    /\ UNCHANGED <<now, ticks, lim, chk, loc, ret, svc, running>>
    /\ UNCHANGED otherVars

(***************************************************************************)
(* The model's answer.  Only its shape matters here: whether the text is   *)
(* JSON, whether the JSON is an object, and for each prompt key whether it  *)
(* is missing, a list (of `len` items) or a single value, and whether the   *)
(* items are JSON objects (dicts).                                          *)
(***************************************************************************)
KeyShape(kind, len, dicts) == [kind |-> kind, len |-> len, dicts |-> dicts]

(* A shape before the batch size is known: a list holds times * bs + plus
   items *)
Shape(kind, times, plus, dicts) ==
    [kind |-> kind, times |-> times, plus |-> plus, dicts |-> dicts]

(* every shape a key can take: missing, a list of 0, bs - 1, bs or bs + 1
   objects, a list of bs items that are not objects, a single value *)
AllKeyShapes ==
    {Shape("missing", 0, 0, TRUE)}
      \cup {Shape("list", 0, 0, TRUE), Shape("list", 1, 0 - 1, TRUE),
            Shape("list", 1, 0, TRUE), Shape("list", 1, 1, TRUE)}
      \cup {Shape("list", 1, 0, FALSE)}
      \cup {Shape("value", 0, 1, d) : d \in BOOLEAN}

(* the answer the prompt asks for: a list of bs objects *)
GoodKeyShapes == {Shape("list", 1, 0, TRUE)}

NotAnObject == {"invalid", "other"}

Responses(np, bs, Shapes, Bad) ==
    {[json |-> j, keys |-> [p \in 1..np |-> KeyShape("missing", 0, TRUE)]] :
        j \in Bad}
      \cup {[json |-> "object", keys |-> k] :
              k \in [1..np -> {KeyShape(sh.kind, sh.times * bs + sh.plus, sh.dicts) :
                                 sh \in Shapes}]}

Chunk(src, start, len, dicts) ==
    [src |-> src, start |-> start, len |-> len, dicts |-> dicts]

(* _create_fallback_results(count): count neutral records *)
create_fallback_results(start, count) == Chunk("fallback", start, count, TRUE)

(* _parse_combined_response: per prompt, the list the batch contributes *)
parse_combined_response(resp, np, start, expected_count) ==
    IF resp.json = "object"
    THEN [p \in 1..np |->
            LET k == resp.keys[p]
            IN  IF k.kind = "missing"
                THEN create_fallback_results(start, expected_count)
                ELSE IF k.kind = "list"
                THEN Chunk("model", start, k.len, k.dicts)
                ELSE Chunk("model", start, 1, k.dicts)]
    ELSE [p \in 1..np |-> create_fallback_results(start, expected_count)]

(* _process_geographic_analysis calls analysis.get: an item that is not a
   dict raises AttributeError *)
GeoRaises(batch_results, np) ==
    \E p \in 1..np : batch_results[p].len > 0 /\ ~batch_results[p].dicts

RECURSIVE ResultsLen(_)
ResultsLen(chunks) ==
    IF chunks = <<>> THEN 0 ELSE Head(chunks).len + ResultsLen(Tail(chunks))

SuccessResult(l, total_tokens, results) ==
    [ status |-> "success",
      total_articles |-> l.n,
      prompt_versions |-> 1..l.np,    \* list(prompt_configs.keys())
      total_tokens_used |-> total_tokens,
      total_batches_processed |-> l.total_batches,
      results_by_prompt |->
          [p \in 1..l.np |->
              [ results |-> results[p],
                tokens_used |-> total_tokens \div l.np,
                articles_analyzed |-> ResultsLen(results[p]) ]] ]

(* generate_content returns or raises; then record_request with the token
   count of the response, the parse, the geographic pass and the merge; then
   the next batch or the return.  Any exception ends in the handler's except
   clause. *)
RecordStep(i, Toks, Shapes, Bad, MayRaise) ==
    LET s  == svc[i]
        l  == loc[i]
        bs == BatchSize(l)
    IN  /\ running = i
        /\ pc[i] = "record"
        /\ \/ /\ MayRaise
              /\ ret' = [ret EXCEPT ![i] = Some(ErrorResult("Multi-prompt analysis failed"))]
              /\ pc' = [pc EXCEPT ![i] = "done"]
              /\ loc' = [loc EXCEPT ![i] = IdleLoc]
              /\ running' = 0
              /\ UNCHANGED <<lim, hist>>
           \/ \E actual_tokens \in Toks, resp \in Responses(l.np, bs, Shapes, Bad) :
                LET batch_results == parse_combined_response(resp, l.np, l.batch_start, bs)
                    total   == l.total_tokens_used + actual_tokens
                    results == [p \in 1..l.np |-> Append(l.results[p], batch_results[p])]
                    next    == l.batch_start + max_articles_per_batch
                IN  /\ lim' = [lim EXCEPT ![s] = record_request(lim[s], now, actual_tokens)]
                    /\ hist' = [hist EXCEPT ![s].recorded = @ + 1,
                                            ![s].last_record_at = Some(now)]
                    /\ IF GeoRaises(batch_results, l.np)
                       THEN /\ ret' = [ret EXCEPT ![i] =
                                         Some(ErrorResult("Multi-prompt analysis failed"))]
                            /\ pc' = [pc EXCEPT ![i] = "done"]
                            /\ loc' = [loc EXCEPT ![i] = IdleLoc]
                            /\ running' = 0
                       ELSE IF next < l.n
                       THEN /\ loc' = [loc EXCEPT ![i].batch_start = next,
                                                  ![i].total_tokens_used = total,
                                                  ![i].results = results]
                            /\ pc' = [pc EXCEPT ![i] = "check"]
                            /\ UNCHANGED <<ret, running>>
                       ELSE /\ ret' = [ret EXCEPT ![i] = Some(SuccessResult(l, total, results))]
                            /\ pc' = [pc EXCEPT ![i] = "done"]
                            /\ loc' = [loc EXCEPT ![i] = IdleLoc]
                            /\ running' = 0
        /\ UNCHANGED <<now, ticks, chk, svc>>
        /\ UNCHANGED otherVars

(***************************************************************************)
(* Other entry points of the service, called while the loop is free        *)
(***************************************************************************)
(* can_make_request(estimated_tokens) called by any caller *)
AdmissionCheck(s, Ests) ==
    /\ running = 0
    /\ \E est \in Ests :
         chk' = [chk EXCEPT ![s] = Some(CheckRecord(s, est, "can_make_request", None))]
    /\ lim' = [lim EXCEPT ![s] = reset_counters_if_needed(lim[s], now)]
    /\ hist' = [hist EXCEPT ![s] = HistAfterReset(hist[s], lim[s], now)]
    /\ UNCHANGED <<now, ticks, pc, loc, ret, svc, running>>
    /\ UNCHANGED otherVars

(* the dict get_usage_stats returns for limiter l (after its reset) *)
get_usage_stats(l, t) ==
    [ requests_today |-> l.daily_requests,
      requests_remaining_today |-> Max(0, requests_per_day - l.daily_requests),
      can_make_request_now |->
          can_make_request(l, t, default_estimated_tokens).can_proceed ]

(* get_usage_stats: the reset, then can_make_request() with its default *)
GetUsageStats(s) ==
    /\ running = 0
    /\ chk' = [chk EXCEPT ![s] =
                 Some(CheckRecord(s, default_estimated_tokens, "get_usage_stats",
                        Some(get_usage_stats(reset_counters_if_needed(lim[s], now), now))))]
    /\ lim' = [lim EXCEPT ![s] = reset_counters_if_needed(lim[s], now)]
    /\ hist' = [hist EXCEPT ![s] = HistAfterReset(hist[s], lim[s], now)]
    /\ UNCHANGED <<now, ticks, pc, loc, ret, svc, running>>
    /\ UNCHANGED otherVars

(* test_connection: one generate_content call, then the return; the
   limiter is not touched *)
TestConnection(s, maxCalls) ==
    /\ running = 0
    /\ hist[s].issued + Cardinality(InBatch(s)) < maxCalls
    /\ hist' = [hist EXCEPT ![s].issued = @ + 1]
    /\ UNCHANGED <<now, ticks, lim, chk, pc, loc, ret, svc, running>>
    /\ UNCHANGED otherVars

(* the clock moves on *)
Tick(Deltas, maxTicks) ==
    /\ ticks < maxTicks
    /\ \E d \in Deltas : now' = now + d
    /\ ticks' = ticks + 1
    /\ UNCHANGED <<lim, hist, chk, pc, loc, ret, svc, running>>
    /\ UNCHANGED otherVars

(***************************************************************************)
(* Spec: one GeminiService, constructed at StartClock, used by NumInv      *)
(* invocations of analyze_articles_batch and by outside callers.           *)
(***************************************************************************)
ArticleCounts == {0, 1, max_articles_per_batch + 1}
PromptCounts == {0, 1}
TokenChoices == {1000, 219000}
EstChoices == {EstimatedTokens(max_articles_per_batch, 2)}
Deltas == {1, target_batch_interval, SecondsPerMinute * MinutesPerHour}

InitScoring ==
    /\ now = StartClock
    /\ ticks = 0
    /\ lim = [s \in Svc |-> NewLimiter(StartClock)]
    /\ hist = [s \in Svc |-> NewHist(StartClock)]
    /\ chk = [s \in Svc |-> None]
    /\ pc = [i \in Inv |-> "idle"]
    /\ loc = [i \in Inv |-> IdleLoc]
    /\ ret = [i \in Inv |-> None]
    /\ svc = [i \in Inv |-> 1]
    /\ running = 0

(* no batch is being followed at the level of its records *)
InitBatchIdle ==
    /\ bat_in = None
    /\ bat_pc = "idle"
    /\ bat_results = None
    /\ bat_ret = None

(* a request that has not arrived *)
IdleRequest ==
    [ pc |-> "idle", articles |-> <<>>, new_articles |-> <<>>,
      duplicate_count |-> 0, k |-> 1, n_analyses |-> 0, database_inserted |-> 0,
      failures |-> 0, checks |-> <<>>, inserts |-> <<>>, ret |-> None ]

(* the articles table is empty and no request is being followed *)
InitStoreIdle ==
    /\ store = <<>>
    /\ rq = [r \in Req |-> IdleRequest]

(* NewsService.__init__ with no sources.yaml: the defaults of
   _load_source_config, the three clients configured *)
default_total_daily_limit == 30
default_daily_limit == 10

DefaultConfig ==
    [ clients |-> <<"afp", "newsapi", "newsdata">>,
      priority |-> [s \in {"afp", "newsapi", "newsdata"} |->
                      CASE s = "afp" -> 1 [] s = "newsapi" -> 2 [] OTHER -> 3],
      total_daily_limit |-> default_total_daily_limit,
      daily_limit |-> default_daily_limit,
      min_quality_score |-> 0,
      quality_score |-> 10 ]

(* fetch_unified_news has not been called *)
IdleFetch ==
    [ pc |-> "idle", page_size |-> 0, max_articles |-> 0, source_limits |-> <<>>,
      answers |-> <<>>, results |-> <<>>, completed |-> <<>>,
      all_articles |-> <<>>, unique_articles |-> <<>>, ret |-> None,
      prev |-> None ]

InitFetchIdle ==
    /\ cfg = DefaultConfig
    /\ fq = IdleFetch

(* no duplicate check has been made *)
IdleDedup ==
    [ op |-> "none", article |-> [title |-> <<>>, url |-> <<>>], table |-> <<>>,
      url_fails |-> FALSE, title_fails |-> FALSE, ret |-> <<FALSE, None>> ]

InitDedupIdle == dq = IdleDedup

(* _process_geographic_analysis has not run; the locations table is empty *)
IdleGeo ==
    [ pc |-> "idle", level_in |-> None, location_in |-> None, fails |-> FALSE,
      level |-> None, location_ids |-> <<>>, location_names |-> <<>> ]

(* AFPClient.__init__: no token yet *)
IdleAfp ==
    [ configured |-> TRUE, clock |-> 0,
      access_token |-> None, refresh_token |-> None, token_expires_at |-> None,
      before |-> [clock |-> 0, access_token |-> None, token_expires_at |-> None],
      exchanges |-> <<>>, search_sent |-> FALSE, ret |-> None ]

(* no request to /api/news has been served; the articles table is empty *)
IdleApi ==
    [ pc |-> "idle", table |-> <<>>, path |-> "", fetched |-> <<>>,
      new_articles |-> <<>>, ret |-> None ]

InitMoreIdle ==
    /\ geo = IdleGeo
    /\ locations = <<>>
    /\ afp = IdleAfp
    /\ api = IdleApi

Init ==
    /\ InitScoring
    /\ InitBatchIdle
    /\ InitStoreIdle
    /\ InitFetchIdle
    /\ InitDedupIdle
    /\ InitMoreIdle

Next ==
    \/ Begin(1, ArticleCounts, PromptCounts)
    \/ CheckStep(1, MaxCalls)
    \/ Wake(1)
    \/ CallStep(1)
    \/ RecordStep(1, TokenChoices, GoodKeyShapes, {}, TRUE)
    \/ AdmissionCheck(1, EstChoices)
    \/ GetUsageStats(1)
    \/ TestConnection(1, MaxCalls)
    \/ Tick(Deltas, MaxTicks)

Spec == Init /\ [][Next]_vars

(***************************************************************************)
(* SpecConc: the same service used by NumInv concurrent invocations        *)
(***************************************************************************)
NextConc ==
    \/ \E i \in Inv : Begin(i, {1, max_articles_per_batch + 1}, {1})
    \/ \E i \in Inv : CheckStep(i, MaxCalls)
    \/ \E i \in Inv : Wake(i)
    \/ \E i \in Inv : CallStep(i)
    \/ \E i \in Inv : RecordStep(i, {1000}, GoodKeyShapes, {}, FALSE)
    \/ Tick({1, target_batch_interval}, MaxTicks)

SpecConc == Init /\ [][NextConc]_vars

(***************************************************************************)
(* SpecQuota: one invocation over enough articles for QuotaMaxCalls batches *)
(***************************************************************************)
NextQuota ==
    \/ Begin(1, {(QuotaMaxCalls - 1) * max_articles_per_batch + 1}, {1})
    \/ CheckStep(1, QuotaMaxCalls)
    \/ Wake(1)
    \/ CallStep(1)
    \/ RecordStep(1, {1000}, GoodKeyShapes, {}, FALSE)
    \/ AdmissionCheck(1, EstChoices)
    \/ Tick({1, target_batch_interval + 1}, QuotaMaxTicks)

SpecQuota == Init /\ [][NextQuota]_vars

(***************************************************************************)
(* SpecNews: /api/news requests served by one process                      *)
(***************************************************************************)
NextNews ==
    \/ \E i \in Inv : GetNews(i, {0, 1}, {1})
    \/ \E i \in Inv : CheckStep(i, MaxCalls)
    \/ \E i \in Inv : CallStep(i)
    \/ \E i \in Inv : RecordStep(i, {1000}, GoodKeyShapes, {}, TRUE)
    \/ Tick({1, target_batch_interval}, MaxTicks)

SpecNews == Init /\ [][NextNews]_vars

(***************************************************************************)
(* SpecScorer: one invocation, every shape of answer                       *)
(***************************************************************************)
NextScorer ==
    \/ Begin(1, {0, 2, max_articles_per_batch + 1}, {0, 1, 2})
    \/ CheckStep(1, MaxCalls)
    \/ Wake(1)
    \/ CallStep(1)
    \/ RecordStep(1, {1000}, AllKeyShapes, NotAnObject, TRUE)
    \/ Tick({1, target_batch_interval + 1}, MaxTicks)

SpecScorer == Init /\ [][NextScorer]_vars

(***************************************************************************)
(* SpecScorerFair: one invocation that is never starved.  The event loop   *)
(* runs a coroutine that can run, time passes while a coroutine sleeps,    *)
(* and generate_content returns or raises.                                 *)
(***************************************************************************)
(* the time of the sleep passes *)
SleepElapses(i) ==
    /\ running = 0
    /\ pc[i] = "sleep"
    /\ now < loc[i].wake
    /\ now' = loc[i].wake
    /\ UNCHANGED <<ticks, lim, hist, chk, pc, loc, ret, svc, running>>
    /\ UNCHANGED otherVars

FairKeyShapes == {Shape("list", 1, 0, TRUE), Shape("list", 1, 0, FALSE)}

NextScorerFair ==
    \/ Begin(1, ArticleCounts, PromptCounts)
    \/ CheckStep(1, MaxCalls)
    \/ Wake(1)
    \/ CallStep(1)
    \/ RecordStep(1, {1000}, FairKeyShapes, {"invalid"}, TRUE)
    \/ Tick({1, target_batch_interval}, MaxTicks)
    \/ SleepElapses(1)

SpecScorerFair ==
    /\ Init
    /\ [][NextScorerFair]_vars
    /\ WF_vars(CheckStep(1, MaxCalls))
    /\ WF_vars(Wake(1))
    /\ WF_vars(CallStep(1))
    /\ WF_vars(RecordStep(1, {1000}, FairKeyShapes, {"invalid"}, TRUE))
    /\ WF_vars(SleepElapses(1))

(***************************************************************************)
(* One batch of analyze_articles_batch at the level of its records: the    *)
(* text of the answer, the parse, the geographic pass and the merge.       *)
(***************************************************************************)
MaxBatch == 3

EmotionNames == {"hope", "awe", "gratitude", "compassion", "relief", "joy"}

(* An element of a results list.  Scores are counted in tenths: 0 is 0.0,
   7 is 0.7.  A JSON object keeps the keys the checks read; `emotions` is None when the key is missing, else the scores the
   object holds.  Anything else (a string, a number, null) is a "scalar". *)
Item(kind, article_index, sentiment, emotions, reasoning) ==
    [ kind |-> kind, article_index |-> article_index, sentiment |-> sentiment,
      emotions |-> emotions, reasoning |-> reasoning ]

(* one element of the list _create_fallback_results returns *)
fallback_record(i) ==
    Item("dict", Some(i), "neutral", Some([e \in EmotionNames |-> 0]),
         "Parsing failed")

(* a variant that returns one record less than asked *)
create_fallback_records_short(count) ==
    [k \in 1..(IF count > 0 THEN count - 1 ELSE 0) |-> fallback_record(k - 1)]

(* _create_fallback_results(count): for i in range(count) *)
create_fallback_records(count) ==
    [k \in 1..(IF count > 0 THEN count ELSE 0) |-> fallback_record(k - 1)]

(* what the model may write for one article *)
ModelFull ==
    Item("dict", None, "positive", Some([e \in EmotionNames |-> 7]), "model")
ModelPartial ==
    Item("dict", None, "positive", Some([e \in {"hope", "joy"} |-> 7]), "model")
ModelNoEmotions == Item("dict", None, "positive", None, "model")
Scalar == Item("scalar", None, "", None, "")

Repeat(x, k) == [j \in 1..(IF k > 0 THEN k ELSE 0) |-> x]

(* a JSON value under a prompt key: an array of items, or one item *)
JList(items) == [tag |-> "list", items |-> items]
JValue(item) == [tag |-> "value", items |-> <<item>>]

(* the values the model may put under one prompt key, for a batch of n *)
KeyValues(n) ==
    {JList(Repeat(it, n)) : it \in {ModelFull, ModelPartial, ModelNoEmotions, Scalar}}
      \cup {JList(Repeat(ModelFull, n + 1)), JList(Repeat(ModelFull, n - 1)),
            JList(<<>>), JValue(ModelFull), JValue(Scalar)}

(* parsed JSON: an object with some of the prompt keys, or another value *)
JObject(keys) == [type |-> "object", keys |-> keys]
JOther == [type |-> "other", keys |-> <<>>]

JsonValues(np, n) ==
    {JOther} \cup
    UNION {{JObject(k) : k \in [K -> KeyValues(n)]} : K \in SUBSET (1..np)}

(* The text of an answer is a sequence of pieces: the opening fence marker
   (three backquotes and the word json), the closing one (three backquotes),
   prose that is not JSON, and JSON values. *)
Piece(kind, value) == [kind |-> kind, value |-> value]
FenceOpen == Piece("fence_json", JOther)
FenceClose == Piece("fence", JOther)
Prose == Piece("prose", JOther)
Json(j) == Piece("json", j)

Texts(np, n) ==
    {<<>>, <<Prose>>, <<FenceOpen, Prose, FenceClose>>}
      \cup UNION {{<<Json(j)>>, <<FenceOpen, Json(j), FenceClose>>,
                   <<FenceOpen, Json(j)>>, <<Prose, Json(j)>>,
                   <<FenceClose, Json(j), FenceClose>>} :
                    j \in JsonValues(np, n)}

(* the cleaning of _parse_combined_response: a leading opening fence and a
   trailing closing fence are cut off *)
clean_text(text) ==
    LET t1 == IF Len(text) > 0 /\ Head(text) = FenceOpen THEN Tail(text) ELSE text
    IN  IF Len(t1) > 0 /\ t1[Len(t1)] = FenceClose
        THEN SubSeq(t1, 1, Len(t1) - 1) ELSE t1

(* json.loads: the value, or None when JSONDecodeError is raised; the text
   must be one JSON value and nothing else *)
json_loads(text) ==
    IF Len(text) = 1 /\ text[1].kind = "json"
    THEN Some(text[1].value) ELSE None

(* a variant that gives a missing key no records *)
parse_combined_text_no_key_fallback(text, np, expected_count) ==
    LET parsed == json_loads(clean_text(text))
    IN  IF parsed # None /\ parsed[1].type = "object"
        THEN [p \in 1..np |->
                IF p \in DOMAIN parsed[1].keys
                THEN parsed[1].keys[p].items
                ELSE <<>>]
        ELSE [p \in 1..np |-> create_fallback_records(expected_count)]

(* _parse_combined_response at the level of records: per prompt key the
   list kept as it is, a single value wrapped in a list, or the fallback *)
parse_combined_text(text, np, expected_count) ==
    LET parsed == json_loads(clean_text(text))
    IN  IF parsed # None /\ parsed[1].type = "object"
        THEN [p \in 1..np |->
                IF p \in DOMAIN parsed[1].keys
                THEN parsed[1].keys[p].items
                ELSE create_fallback_records(expected_count)]
        ELSE [p \in 1..np |-> create_fallback_records(expected_count)]

(* _process_geographic_analysis reads the item with .get: an item that is
   not a dict raises AttributeError; a dict only gets geographical_* keys
   written, which the records here do not carry *)
geo_raises(items) == \E k \in 1..Len(items) : items[k].kind # "dict"

(* the batch a call is given: the text of the answer, the number of active
   prompts and the number of articles *)
BatchInputs ==
    UNION {{[text |-> t, np |-> np, n |-> n] : t \in Texts(np, n)} :
             <<np, n>> \in (1..2) \X (1..MaxBatch)}

(* response.text reaches _parse_combined_response *)
ParseBatch ==
    /\ bat_pc = "parse"
    /\ bat_results' = Some(parse_combined_text(bat_in[1].text, bat_in[1].np,
                                                 bat_in[1].n))
    /\ bat_pc' = "geo"
    /\ UNCHANGED <<bat_in, bat_ret>>
    /\ UNCHANGED <<scoringVars, storeVars, fetchVars, dedupVars, moreVars>>

(* the geographic pass and the merge of the only batch, then the return of
   analyze_articles_batch: an exception ends in its except clause *)
MergeBatch ==
    /\ bat_pc = "geo"
    /\ bat_ret' =
         IF \E p \in 1..bat_in[1].np : geo_raises(bat_results[1][p])
         THEN Some(ErrorResult("Multi-prompt analysis failed"))
         ELSE Some([ status |-> "success",
                     total_articles |-> bat_in[1].n,
                     prompt_versions |-> 1..bat_in[1].np,
                     results_by_prompt |->
                         [p \in 1..bat_in[1].np |->
                             [ results |-> bat_results[1][p],
                               articles_analyzed |-> Len(bat_results[1][p]) ]] ])
    /\ bat_pc' = "done"
    /\ UNCHANGED <<bat_in, bat_results>>
    /\ UNCHANGED <<scoringVars, storeVars, fetchVars, dedupVars, moreVars>>

InitBatch ==
    /\ InitScoring
    /\ InitStoreIdle
    /\ InitFetchIdle
    /\ InitDedupIdle
    /\ InitMoreIdle
    /\ bat_in \in {Some(b) : b \in BatchInputs}
    /\ bat_pc = "parse"
    /\ bat_results = None
    /\ bat_ret = None

NextBatch == ParseBatch \/ MergeBatch

SpecBatch == InitBatch /\ [][NextBatch]_vars

(***************************************************************************)
(* Text.  A string is a sequence of one-character strings; " " is the only *)
(* whitespace that occurs.                                                 *)
(***************************************************************************)
Space == " "

(* str.lower() on one character *)
lower_char(c) ==
    CASE c = "A" -> "a" [] c = "B" -> "b" [] c = "C" -> "c" [] c = "D" -> "d"
      [] c = "E" -> "e" [] c = "F" -> "f" [] c = "G" -> "g" [] c = "H" -> "h"
      [] c = "I" -> "i" [] c = "J" -> "j" [] c = "K" -> "k" [] c = "L" -> "l"
      [] c = "M" -> "m" [] c = "N" -> "n" [] c = "O" -> "o" [] c = "P" -> "p"
      [] c = "Q" -> "q" [] c = "R" -> "r" [] c = "S" -> "s" [] c = "T" -> "t"
      [] c = "U" -> "u" [] c = "V" -> "v" [] c = "W" -> "w" [] c = "X" -> "x"
      [] c = "Y" -> "y" [] c = "Z" -> "z" [] OTHER -> c

lower(t) == [k \in 1..Len(t) |-> lower_char(t[k])]

RECURSIVE lstrip(_)
lstrip(t) == IF t # <<>> /\ Head(t) = Space THEN lstrip(Tail(t)) ELSE t

RECURSIVE rstrip(_)
rstrip(t) ==
    IF t # <<>> /\ t[Len(t)] = Space THEN rstrip(SubSeq(t, 1, Len(t) - 1)) ELSE t

(* str.strip() *)
strip(t) == rstrip(lstrip(t))

(* the first word of a text that does not start with whitespace *)
RECURSIVE first_word(_)
first_word(t) ==
    IF t = <<>> \/ Head(t) = Space THEN <<>> ELSE <<Head(t)>> \o first_word(Tail(t))

(* str.split(): the list of the words between whitespace *)
RECURSIVE split(_)
split(t) ==
    LET u == lstrip(t)
    IN  IF u = <<>> THEN <<>>
        ELSE <<first_word(u)>> \o split(SubSeq(u, Len(first_word(u)) + 1, Len(u)))

Range(f) == {f[x] : x \in DOMAIN f}

(* an article as the clients normalise it; a key that is missing reads as
   the empty string through article.get(key, '') *)
Art(title, url, api_source) ==
    [title |-> title, url |-> url, api_source |-> api_source]

(***************************************************************************)
(* The articles table (database_setup.py) and DatabaseService              *)
(***************************************************************************)
Row(a) == [url_id |-> a.url, title |-> a.title]

(* a variant of the table without the UNIQUE constraint on url_id *)
insert_article_no_constraint(table, a, fails) ==
    IF fails
    THEN [table |-> table, article_id |-> None]
    ELSE [table |-> Append(table, Row(a)), article_id |-> Some(Len(table) + 1)]

(* insert_article: INSERT INTO articles; url_id is UNIQUE, so the insert of
   a stored URL raises IntegrityError; any exception is caught and None is
   returned, and nothing was committed *)
insert_article(table, a, fails) ==
    IF fails \/ \E k \in 1..Len(table) : table[k].url_id = a.url
    THEN [table |-> table, article_id |-> None]
    ELSE [table |-> Append(table, Row(a)), article_id |-> Some(Len(table) + 1)]

(* check_url_exists: the count of the rows WHERE url_id = ?; any exception is
   caught and False is returned *)
check_url_exists(table, url, fails) ==
    IF fails THEN FALSE
    ELSE Cardinality({k \in 1..Len(table) : table[k].url_id = url}) > 0

(***************************************************************************)
(* get_news, from the return of fetch_unified_news on, with the table.     *)
(* The requests may be served by different processes over one database     *)
(* file, so they interleave at every database operation.                   *)
(***************************************************************************)
UrlU == <<"u">>
UrlV == <<"v">>
TitleAB == <<"a", Space, "b">>
TitleCD == <<"c", Space, "d">>

(* result["articles"] of a request *)
NewsLists ==
    { <<>>,
      <<Art(TitleAB, UrlU, "afp")>>,
      <<Art(TitleAB, UrlU, "afp"), Art(TitleCD, UrlV, "newsapi")>>,
      <<Art(TitleAB, UrlU, "afp"), Art(TitleCD, UrlU, "newsapi")>> }

(* database failures so far, over all requests *)
RECURSIVE FailuresUpTo(_)
FailuresUpTo(r) == IF r = 0 THEN 0 ELSE rq[r].failures + FailuresUpTo(r - 1)

(* the dict get_news returns, as far as the store is concerned *)
NewsResult(gemini_analyzed, database_inserted) ==
    [ status |-> "success", gemini_analyzed |-> gemini_analyzed,
      database_inserted |-> database_inserted ]

(* fetch_unified_news has returned status success with its articles; with
   no article get_news returns at once *)
NewsArrives(r, Lists) ==
    /\ rq[r].pc = "idle"
    /\ \E articles \in Lists :
         rq' = [rq EXCEPT ![r] =
                  IF articles = <<>>
                  THEN [IdleRequest EXCEPT !.pc = "done",
                                           !.ret = Some(NewsResult(FALSE, None))]
                  ELSE [IdleRequest EXCEPT !.pc = "filter", !.articles = articles]]
    /\ UNCHANGED store
    /\ UNCHANGED <<scoringVars, batchVars, fetchVars, dedupVars, moreVars>>

(* one turn of the filter loop: check_url_exists(article.get('url', ''));
   after the last turn, the branch on new_articles *)
CheckUrl(r, Fails) ==
    LET q == rq[r]
        a == q.articles[q.k]
    IN  /\ q.pc = "filter"
        /\ \E fails \in Fails :
             LET exists == check_url_exists(store, a.url, fails)
                 new    == IF exists THEN q.new_articles ELSE Append(q.new_articles, a)
                 last   == q.k = Len(q.articles)
                 q1     == [q EXCEPT !.new_articles = new,
                                     !.duplicate_count = IF exists THEN @ + 1 ELSE @,
                                     !.k = IF last THEN 1 ELSE @ + 1,
                                     !.failures = IF fails THEN @ + 1 ELSE @,
                                     !.checks = Append(@,
                                         [ url |-> a.url, failed |-> fails, kept |-> ~exists,
                                           stored |-> \E j \in 1..Len(store) :
                                                         store[j].url_id = a.url ])]
             IN  /\ fails => FailuresUpTo(NumReq) < MaxStoreFailures
                 /\ rq' = [rq EXCEPT ![r] =
                            IF last /\ new = <<>>
                            THEN [q1 EXCEPT !.pc = "done",
                                            !.ret = Some(NewsResult(FALSE, Some(0)))]
                            ELSE IF last THEN [q1 EXCEPT !.pc = "analyze"]
                            ELSE q1]
        /\ UNCHANGED store
        /\ UNCHANGED <<scoringVars, batchVars, fetchVars, dedupVars, moreVars>>

(* analyze_articles_batch(new_articles) has returned: an error, or success
   with a first prompt whose results lack `short` elements *)
Analyzed(r, Shorts) ==
    LET q == rq[r]
    IN  /\ q.pc = "analyze"
        /\ \/ rq' = [rq EXCEPT ![r].pc = "done",
                               ![r].ret = Some(NewsResult(FALSE, None))]
           \/ \E short \in Shorts :
                /\ short <= Len(q.new_articles)
                /\ rq' = [rq EXCEPT ![r].pc = "insert",
                                    ![r].n_analyses = Len(q.new_articles) - short]
        /\ UNCHANGED store
        /\ UNCHANGED <<scoringVars, batchVars, fetchVars, dedupVars, moreVars>>

(* one turn of the insert loop: insert_article(article, first_analyses[i]) *)
InsertStep(r, Fails) ==
    LET q == rq[r]
        a == q.new_articles[q.k]
    IN  /\ q.pc = "insert"
        /\ q.k <= Min(q.n_analyses, Len(q.new_articles))
        /\ \E fails \in Fails :
             LET res == insert_article(store, a, fails)
             IN  /\ fails => FailuresUpTo(NumReq) < MaxStoreFailures
                 /\ store' = res.table
                 /\ rq' = [rq EXCEPT ![r].k = @ + 1,
                                     ![r].failures = IF fails THEN @ + 1 ELSE @,
                                     ![r].database_inserted =
                                         IF res.article_id # None THEN @ + 1 ELSE @,
                                     ![r].inserts = Append(@,
                                         [ url |-> a.url, failed |-> fails,
                                           article_id |-> res.article_id,
                                           rows_added |-> Len(res.table) - Len(store),
                                           stored_before |-> \E j \in 1..Len(store) :
                                                               store[j].url_id = a.url ])]
        /\ UNCHANGED <<scoringVars, batchVars, fetchVars, dedupVars, moreVars>>

(* after the insert loop: the metadata, the sheets logging inside its own
   try, and the return *)
Respond(r) ==
    LET q == rq[r]
    IN  /\ q.pc = "insert"
        /\ q.k > Min(q.n_analyses, Len(q.new_articles))
        /\ rq' = [rq EXCEPT ![r].pc = "done",
                            ![r].ret = Some(NewsResult(TRUE, Some(q.database_inserted)))]
        /\ UNCHANGED store
        /\ UNCHANGED <<scoringVars, batchVars, fetchVars, dedupVars, moreVars>>

InitStore ==
    /\ InitScoring
    /\ InitBatchIdle
    /\ InitStoreIdle
    /\ InitFetchIdle
    /\ InitDedupIdle
    /\ InitMoreIdle

NextStore ==
    \/ \E r \in Req : NewsArrives(r, NewsLists)
    \/ \E r \in Req : CheckUrl(r, BOOLEAN)
    \/ \E r \in Req : Analyzed(r, {0})
    \/ \E r \in Req : InsertStep(r, BOOLEAN)
    \/ \E r \in Req : Respond(r)

SpecStore == InitStore /\ [][NextStore]_vars

(***************************************************************************)
(* NewsService.fetch_unified_news and the source clients                   *)
(***************************************************************************)
Sources == {"afp", "newsapi", "newsdata"}

(* a sources.yaml that lists the sources in another order than their
   priorities, two of them with one priority, and a small global limit *)
SmallConfig ==
    [ clients |-> <<"newsdata", "newsapi", "afp">>,
      priority |-> [s \in Sources |-> IF s = "afp" THEN 1 ELSE 2],
      total_daily_limit |-> 4,
      daily_limit |-> default_daily_limit,
      min_quality_score |-> 0,
      quality_score |-> 10 ]

(* no client is active and configured *)
EmptyConfig == [DefaultConfig EXCEPT !.clients = <<>>]

Configs == {DefaultConfig, SmallConfig, EmptyConfig}

(* list.index(x): the first position of x *)
IndexOf(seq, x) == CHOOSE k \in 1..Len(seq) : seq[k] = x /\ \A j \in 1..(k - 1) : seq[j] # x

(* list.sort(key=...): a stable sort, by insertion; key is a function on
   the elements *)
RECURSIVE sort_by_key(_, _)
sort_by_key(seq, key) ==
    IF seq = <<>> THEN <<>>
    ELSE LET x      == seq[Len(seq)]
             sorted == sort_by_key(SubSeq(seq, 1, Len(seq) - 1), key)
             NotAfter(e) == key[e] <= key[x]
             After(e)    == key[e] > key[x]
         IN  SelectSeq(sorted, NotAfter) \o <<x>> \o SelectSeq(sorted, After)

(* _get_priority_order: the clients sorted by their configured priority *)
get_priority_order(config) == sort_by_key(config.clients, config.priority)

(* seq[:m] *)
slice_to(seq, m) ==
    IF m >= 0 THEN SubSeq(seq, 1, Min(m, Len(seq)))
    ELSE SubSeq(seq, 1, Max(Len(seq) + m, 0))

(* a variant that takes the requested page size alone *)
max_articles_page_size(page_size, config) ==
    page_size

(* max_articles = min(page_size, settings.get('total_daily_limit', 30)) *)
max_articles(page_size, config) ==
    Min(page_size, config.total_daily_limit)

(* source_limits[source] = min(source_limit, max_articles // len(sources)) *)
source_limit(config, max) == Min(config.daily_limit, max \div Len(config.clients))

(* What a provider sends back: documents, an HTTP error, or something that
   makes fetch_news raise *)
Doc(title, url) == [title |-> title, url |-> url]
Docs(docs) == [kind |-> "docs", docs |-> docs]
HttpError == [kind |-> "http_error", docs |-> <<>>]
Raises == [kind |-> "raise", docs |-> <<>>]

Words(w) ==
    [k \in 1..(IF Len(w) = 0 THEN 0 ELSE 2 * Len(w) - 1) |->
        IF k % 2 = 1 THEN w[(k + 1) \div 2] ELSE Space]

(* five documents with one-word titles that no other source has *)
FiveWords(s) ==
    CASE s = "afp" -> <<"f", "g", "h", "i", "j">>
      [] s = "newsapi" -> <<"k", "l", "m", "n", "o">>
      [] OTHER -> <<"p", "q", "r", "s", "t">>

FiveDocs(s) == [k \in 1..5 |-> Doc(<<FiveWords(s)[k]>>, <<"/", FiveWords(s)[k]>>)]

(* documents whose titles meet across the sources: equal up to case and
   margin, three words of four shared, the same words in another order; one
   document without a title and one without a URL *)
MixedDocs(s) ==
    CASE s = "afp" ->
           << Doc(Words(<<"a", "b", "c", "d">>), <<"/", "1">>),
              Doc(<<>>, <<"/", "2">>),
              Doc(Words(<<"x", "y">>), <<"/", "3">>) >>
      [] s = "newsapi" ->
           << Doc(Words(<<"A", "B", "C", "D">>) \o <<Space>>, <<>>),
              Doc(Words(<<"a", "b", "c", "e">>), <<"/", "4">>) >>
      [] OTHER ->
           << Doc(Words(<<"d", "c", "b", "a">>), <<"/", "1">>),
              Doc(Words(<<"z">>), <<"/", "5">>),
              Doc(Words(<<"a", "b", "e", "f">>), <<"/", "6">>) >>

ProviderAnswers(s) ==
    {HttpError, Raises, Docs(<<>>), Docs(FiveDocs(s)), Docs(MixedDocs(s))}

(* normalize_article of the client of source s *)
normalize_article(s, raw) == Art(raw.title, raw.url, s)

(* BaseNewsClient.remove_duplicates: the first article of each title, titles
   compared stripped and lower-cased; an article without a title is dropped *)
RECURSIVE remove_duplicates_loop(_, _, _)
remove_duplicates_loop(articles, seen_titles, unique_articles) ==
    IF articles = <<>> THEN unique_articles
    ELSE LET title == lower(strip(Head(articles).title))
         IN  IF title # <<>> /\ title \notin seen_titles
             THEN remove_duplicates_loop(Tail(articles), seen_titles \cup {title},
                                         Append(unique_articles, Head(articles)))
             ELSE remove_duplicates_loop(Tail(articles), seen_titles, unique_articles)

remove_duplicates(articles) == remove_duplicates_loop(articles, {}, <<>>)

(* the value a task of the gather has *)
SourceResult(is_dict, status, source, error, articles) ==
    [ is_dict |-> is_dict, status |-> status, source |-> source, error |-> error,
      articles |-> articles ]

(* client.fetch_news when it returns: format_error_response or the
   normalised articles without duplicate titles *)
fetch_news(s, answer) ==
    IF answer.kind = "docs"
    THEN SourceResult(TRUE, "success", s, "",
           remove_duplicates([k \in 1..Len(answer.docs) |->
                                 normalize_article(s, answer.docs[k])]))
    ELSE SourceResult(TRUE, "error", s, "Request failed", <<>>)

(* a variant that lets the exception out, so that gather hands back the
   exception object *)
fetch_from_source_uncaught(s, answer) ==
    IF answer.kind = "raise"
    THEN SourceResult(FALSE, "", s, "", <<>>)
    ELSE fetch_news(s, answer)

(* _fetch_from_source: the client's result with result['source'] = source,
   or the error dict of the except clause *)
fetch_from_source(s, answer) ==
    IF answer.kind = "raise"
    THEN SourceResult(TRUE, "error", s, "Fetch failed", <<>>)
    ELSE fetch_news(s, answer)

(* a variant that counts a source without articles as failed *)
RECURSIVE process_results_empty_failed(_, _, _)
process_results_empty_failed(source_results, config, acc) ==
    IF source_results = <<>> THEN acc
    ELSE LET result == Head(source_results)
             rest   == Tail(source_results)
         IN  IF result.is_dict /\ result.status = "success"
                   /\ config.quality_score >= config.min_quality_score
                   /\ result.articles # <<>>
             THEN process_results_empty_failed(rest, config,
                    [acc EXCEPT !.all_articles = @ \o result.articles,
                                !.sources_used = Append(@, result.source)])
             ELSE IF result.is_dict
             THEN process_results_empty_failed(rest, config,
                    [acc EXCEPT !.sources_failed =
                        Append(@, [source |-> result.source, error |-> result.error])])
             ELSE process_results_empty_failed(rest, config, acc)

(* the loop over source_results: all_articles, sources_used, sources_failed *)
RECURSIVE process_results(_, _, _)
process_results(source_results, config, acc) ==
    IF source_results = <<>> THEN acc
    ELSE LET result == Head(source_results)
             rest   == Tail(source_results)
         IN  IF result.is_dict /\ result.status = "success"
             THEN IF config.quality_score >= config.min_quality_score
                       /\ result.articles # <<>>
                  THEN process_results(rest, config,
                         [acc EXCEPT !.all_articles = @ \o result.articles,
                                     !.sources_used = Append(@, result.source)])
                  ELSE process_results(rest, config, acc)
             ELSE IF result.is_dict
             THEN process_results(rest, config,
                    [acc EXCEPT !.sources_failed =
                        Append(@, [source |-> result.source, error |-> result.error])])
             ELSE process_results(rest, config, acc)

(* a variant that leaves the articles in the order of the gather *)
sort_by_priority_not(articles, priority_order) == articles

(* all_articles.sort(key=lambda x: self.priority_order.index(x[api_source])) *)
sort_by_priority(articles, priority_order) ==
    sort_by_key(articles,
                [a \in Range(articles) |-> IndexOf(priority_order, a.api_source)])

(* the words of a title: set(title.split()) *)
title_words(title) == Range(split(title))

(* similarity > 0.7, with similarity = overlap / max(len, len) *)
cross_source_similar(title_words_, seen_words) ==
    /\ title_words_ # {} /\ seen_words # {}
    /\ 10 * Cardinality(title_words_ \cap seen_words)
          > 7 * Max(Cardinality(title_words_), Cardinality(seen_words))

(* _remove_cross_source_duplicates *)
RECURSIVE remove_cross_source_loop(_, _, _)
remove_cross_source_loop(articles, seen_titles, unique_articles) ==
    IF articles = <<>> THEN unique_articles
    ELSE LET title == lower(strip(Head(articles).title))
             is_dup == \E seen_title \in seen_titles :
                          cross_source_similar(title_words(title), title_words(seen_title))
         IN  IF ~is_dup /\ title # <<>>
             THEN remove_cross_source_loop(Tail(articles), seen_titles \cup {title},
                                           Append(unique_articles, Head(articles)))
             ELSE remove_cross_source_loop(Tail(articles), seen_titles, unique_articles)

(* a variant that drops the articles without a title and nothing else *)
remove_cross_source_duplicates_none(articles) ==
    LET titled(a) == lower(strip(a.title)) # <<>>
    IN  SelectSeq(articles, titled)

remove_cross_source_duplicates(articles) ==
    remove_cross_source_loop(articles, {}, <<>>)

(* the page sizes get_news may pass: min(pageSize, 100) of any integer *)
PageSizes == {0 - 1, 0, 3, 20}

(* fetch_unified_news up to the gather: the early return without sources,
   max_articles, the limits, one task per source *)
FetchBegin(Sizes) ==
    /\ fq.pc = "idle"
    /\ \E page_size \in Sizes :
         fq' = IF cfg.clients = <<>>
               THEN [IdleFetch EXCEPT !.pc = "done", !.page_size = page_size,
                        !.prev = fq.prev,
                        !.ret = Some([status |-> "error",
                                      error |-> "No news sources configured or active",
                                      sources_used |-> <<>>, articles |-> <<>>])]
               ELSE [IdleFetch EXCEPT
                        !.pc = "gather", !.page_size = page_size,
                        !.prev = fq.prev,
                        !.max_articles = max_articles(page_size, cfg),
                        !.source_limits =
                            [s \in Range(cfg.clients) |->
                                source_limit(cfg, max_articles(page_size, cfg))],
                        !.answers = [s \in Range(cfg.clients) |-> None],
                        !.results = [s \in Range(cfg.clients) |-> None]]
    /\ UNCHANGED cfg
    /\ UNCHANGED <<scoringVars, batchVars, storeVars, dedupVars, moreVars>>

(* one task of the gather ends: _fetch_from_source of source s *)
SourceReturns(s) ==
    /\ fq.pc = "gather"
    /\ s \in DOMAIN fq.results
    /\ fq.results[s] = None
    /\ \E answer \in ProviderAnswers(s) :
         fq' = [fq EXCEPT !.answers[s] = Some(answer),
                          !.results[s] = Some(fetch_from_source(s, answer)),
                          !.completed = Append(@, s)]
    /\ UNCHANGED cfg
    /\ UNCHANGED <<scoringVars, batchVars, storeVars, dedupVars, moreVars>>

(* asyncio.gather with return_exceptions=True: the results in the order
   of the tasks, which is the order of the available sources, whatever the
   order the tasks completed in *)
gather(clients, results, completed) ==
    [k \in 1..Len(clients) |-> results[clients[k]][1]]

(* the request after the gather *)
fetch_result(config, q, source_results, sorted) ==
    LET acc == process_results(source_results, config,
                  [all_articles |-> <<>>, sources_used |-> <<>>, sources_failed |-> <<>>])
        all_articles    == IF sorted
                           THEN sort_by_priority(acc.all_articles, get_priority_order(config))
                           ELSE acc.all_articles
        unique_articles == remove_cross_source_duplicates(all_articles)
        final_articles  == slice_to(unique_articles, q.max_articles)
    IN  [q EXCEPT
           !.pc = "done",
           !.all_articles = all_articles,
           !.unique_articles = unique_articles,
           !.ret = Some([ status |-> "success",
                          totalSources |-> Len(config.clients),
                          sourcesUsed |-> acc.sources_used,
                          sourcesFailed |-> acc.sources_failed,
                          totalArticles |-> Len(final_articles),
                          crossSourceDuplicatesRemoved |->
                              Len(all_articles) - Len(unique_articles),
                          articles |-> final_articles ])]

(* a variant that takes the results as they complete and does not sort *)
finish_fetch_as_completed(config, q) ==
    fetch_result(config, q, [k \in 1..Len(q.completed) |-> q.results[q.completed[k]][1]],
                 FALSE)

(* fetch_unified_news from the gather on: the results are processed in the
   order of the tasks, sorted, cleared of duplicates and cut *)
finish_fetch(config, q) ==
    fetch_result(config, q, gather(config.clients, q.results, q.completed), TRUE)

(* the gather is complete *)
FetchFinish ==
    /\ fq.pc = "gather"
    /\ \A s \in DOMAIN fq.results : fq.results[s] # None
    /\ fq' = finish_fetch(cfg, fq)
    /\ UNCHANGED cfg
    /\ UNCHANGED <<scoringVars, batchVars, storeVars, dedupVars, moreVars>>

(* what a run of fetch_unified_news was given and what it returned *)
RunOf(q) ==
    [ page_size |-> q.page_size, answers |-> q.answers, completed |-> q.completed,
      unique_articles |-> q.unique_articles, articles |-> q.ret[1].articles ]

(* fetch_unified_news has returned; the next call of it is the second run *)
FetchAgain ==
    /\ fq.pc = "done"
    /\ fq.prev = None
    /\ cfg.clients # <<>>
    /\ fq' = [IdleFetch EXCEPT !.prev = Some(RunOf(fq))]
    /\ UNCHANGED cfg
    /\ UNCHANGED <<scoringVars, batchVars, storeVars, dedupVars, moreVars>>

InitFetch ==
    /\ InitScoring
    /\ InitBatchIdle
    /\ InitStoreIdle
    /\ cfg \in Configs
    /\ fq = IdleFetch
    /\ InitDedupIdle
    /\ InitMoreIdle

NextFetch ==
    \/ FetchBegin(PageSizes)
    \/ \E s \in Sources : SourceReturns(s)
    \/ FetchFinish

SpecFetch == InitFetch /\ [][NextFetch]_vars

(* two runs of fetch_unified_news, one after the other, over the default
   configuration: each provider raises or answers one of two lists, and the
   tasks complete in any order *)
TwiceAnswers(s) == {Raises, Docs(FiveDocs(s)), Docs(MixedDocs(s))}

SourceReturnsTwice(s) ==
    /\ SourceReturns(s)
    /\ fq'.answers[s][1] \in TwiceAnswers(s)

NextFetchTwice ==
    \/ FetchBegin({20})
    \/ \E s \in Sources : SourceReturnsTwice(s)
    \/ FetchFinish
    \/ FetchAgain

SpecFetchTwice == Init /\ [][NextFetchTwice]_vars

(***************************************************************************)
(* DeduplicationService and the lookups of the stored articles             *)
(***************************************************************************)
MaxStored == 2

(* SequenceMatcher: the size of the matching blocks of a[alo..ahi) and
   b[blo..bhi).  find_longest_match gives the longest block, of those the
   one that starts earliest in a, of those the one that starts earliest in
   b; the parts to the left and to the right of it are matched in turn.
   (The titles are far shorter than the 200 elements at which the automatic
   junk heuristic begins.) *)
RECURSIVE matching_size(_, _, _, _, _, _)
matching_size(a, b, alo, ahi, blo, bhi) ==
    IF alo >= ahi \/ blo >= bhi THEN 0
    ELSE LET Blocks == { m \in (alo..(ahi - 1)) \X (blo..(bhi - 1))
                                  \X (1..Min(ahi - alo, bhi - blo)) :
                           /\ m[1] + m[3] <= ahi
                           /\ m[2] + m[3] <= bhi
                           /\ \A d \in 0..(m[3] - 1) : a[m[1] + d + 1] = b[m[2] + d + 1] }
         IN  IF Blocks = {} THEN 0
             ELSE LET best == CHOOSE m \in Blocks : \A o \in Blocks :
                                 \/ m[3] > o[3]
                                 \/ m[3] = o[3] /\ m[1] < o[1]
                                 \/ m[3] = o[3] /\ m[1] = o[1] /\ m[2] <= o[2]
                  IN  best[3]
                      + matching_size(a, b, alo, best[1], blo, best[2])
                      + matching_size(a, b, best[1] + best[3], ahi, best[2] + best[3], bhi)

(* SequenceMatcher(None, a, b).ratio() >= 0.8, the ratio being 2.0 * M / T
   and 1.0 for two empty strings *)
ratio_at_least_threshold(a, b) ==
    \/ Len(a) + Len(b) = 0
    \/ 10 * 2 * matching_size(a, b, 0, Len(a), 0, Len(b)) >= 8 * (Len(a) + Len(b))

(* _check_url_duplicate: SELECT 1 FROM articles WHERE url_id = ?; an
   exception is logged and False returned *)
check_url_duplicate(table, url, fails) ==
    IF fails THEN FALSE
    ELSE \E k \in 1..Len(table) : table[k].url_id = url

(* a variant in which a failed title lookup counts as a match *)
check_title_similarity_closed(table, title, fails) ==
    IF fails THEN TRUE
    ELSE \E k \in 1..Len(table) :
            ratio_at_least_threshold(lower(title), lower(table[k].title))

(* _check_title_similarity: any stored title whose ratio with the title
   reaches the threshold; an exception is logged and False returned *)
check_title_similarity(table, title, fails) ==
    IF fails THEN FALSE
    ELSE \E k \in 1..Len(table) :
            ratio_at_least_threshold(lower(title), lower(table[k].title))

(* a variant that looks at the titles before the URL *)
is_duplicate_title_first(table, article, url_fails, title_fails) ==
    IF article.url = <<>> \/ article.title = <<>> THEN <<FALSE, None>>
    ELSE IF check_title_similarity(table, article.title, title_fails)
    THEN <<TRUE, Some("Title similarity")>>
    ELSE IF check_url_duplicate(table, article.url, url_fails)
    THEN <<TRUE, Some("URL match")>>
    ELSE <<FALSE, None>>

(* is_duplicate: the required fields, then the URL, then the titles; the
   value is (is_duplicate, reason) *)
is_duplicate(table, article, url_fails, title_fails) ==
    IF article.url = <<>> \/ article.title = <<>> THEN <<FALSE, None>>
    ELSE IF check_url_duplicate(table, article.url, url_fails)
    THEN <<TRUE, Some("URL match")>>
    ELSE IF check_title_similarity(table, article.title, title_fails)
    THEN <<TRUE, Some("Title similarity")>>
    ELSE <<FALSE, None>>

(* articles that meet in their URLs and in their titles *)
DedupArticles ==
    { [title |-> Words(<<"a", "b", "c", "d">>), url |-> <<"u">>],
      [title |-> Words(<<"a", "b", "c", "e">>), url |-> <<"v">>],
      [title |-> Words(<<"d", "c", "b", "a">>), url |-> <<"u">>],
      [title |-> Words(<<"A", "B", "C", "D">>), url |-> <<"U">>],
      [title |-> Words(<<"z">>), url |-> <<Space, "u">>],
      [title |-> <<>>, url |-> <<"v">>],
      [title |-> Words(<<"a", "b", "c", "d">>), url |-> <<>>] }

(* an article was stored by an earlier request *)
StoreArticle(Articles) ==
    /\ Len(store) < MaxStored
    /\ \E a \in Articles :
         /\ insert_article(store, a, FALSE).article_id # None
         /\ store' = insert_article(store, a, FALSE).table
    /\ UNCHANGED <<rq, dq>>
    /\ UNCHANGED <<scoringVars, batchVars, fetchVars, moreVars>>

(* DeduplicationService.is_duplicate(article); each of its two lookups opens
   the database for itself and may fail for itself *)
IsDuplicate(Articles) ==
    /\ \E a \in Articles, url_fails \in BOOLEAN, title_fails \in BOOLEAN :
         dq' = [ op |-> "is_duplicate", article |-> a, table |-> store,
                 url_fails |-> url_fails, title_fails |-> title_fails,
                 ret |-> is_duplicate(store, a, url_fails, title_fails) ]
    /\ UNCHANGED storeVars
    /\ UNCHANGED <<scoringVars, batchVars, fetchVars, moreVars>>

(* DatabaseService.check_url_exists(article.get('url', '')) *)
CheckUrlExists(Articles) ==
    /\ \E a \in Articles, fails \in BOOLEAN :
         dq' = [ op |-> "check_url_exists", article |-> a, table |-> store,
                 url_fails |-> fails, title_fails |-> FALSE,
                 ret |-> <<check_url_exists(store, a.url, fails), None>> ]
    /\ UNCHANGED storeVars
    /\ UNCHANGED <<scoringVars, batchVars, fetchVars, moreVars>>

InitDedup ==
    /\ InitScoring
    /\ InitBatchIdle
    /\ InitStoreIdle
    /\ InitFetchIdle
    /\ InitDedupIdle
    /\ InitMoreIdle

NextDedup ==
    \/ StoreArticle(DedupArticles)
    \/ IsDuplicate(DedupArticles)
    \/ CheckUrlExists(DedupArticles)

SpecDedup == InitDedup /\ [][NextDedup]_vars

(***************************************************************************)
(* GeminiService._process_geographic_analysis and the locations table      *)
(***************************************************************************)
LevelGlobal   == <<"G", "l", "o", "b", "a", "l">>
LevelRegional == <<"R", "e", "g", "i", "o", "n", "a", "l">>
LevelNational == <<"N", "a", "t", "i", "o", "n", "a", "l">>
LevelLocal    == <<"L", "o", "c", "a", "l">>

Japan        == <<"J", "a", "p", "a", "n">>
China        == <<"C", "h", "i", "n", "a">>
India        == <<"I", "n", "d", "i", "a">>
USA          == <<"U", "S", "A">>
World        == <<"W", "o", "r", "l", "d">>
EastAsia     == <<"E", "a", "s", "t", Space, "A", "s", "i", "a">>
SouthAsia    == <<"S", "o", "u", "t", "h", Space, "A", "s", "i", "a">>
NorthAmerica == <<"N", "o", "r", "t", "h", Space, "A", "m", "e", "r", "i", "c", "a">>
Asia         == <<"A", "s", "i", "a">>
Americas     == <<"A", "m", "e", "r", "i", "c", "a", "s">>
UnknownRegion    == <<"U", "n", "k", "n", "o", "w", "n", Space, "R", "e", "g", "i", "o", "n">>
UnknownContinent ==
    <<"U", "n", "k", "n", "o", "w", "n", Space, "C", "o", "n", "t", "i", "n", "e", "n", "t">>

(* a field of the analysis dict as the model returned it: absent, a string
   or a list of strings *)
Absent        == [kind |-> "missing", text |-> <<>>, items |-> <<>>]
Str(text)     == [kind |-> "str", text |-> text, items |-> <<>>]
StrList(items) == [kind |-> "list", text |-> <<>>, items |-> items]

(* not value *)
falsy(v) ==
    \/ v.kind = "missing"
    \/ v.kind = "str" /\ v.text = <<>>
    \/ v.kind = "list" /\ v.items = <<>>

(* level_mapping.get(key, default) *)
level_mapping(key, default) ==
    CASE key = lower(LevelGlobal) -> LevelGlobal
      [] key = lower(LevelRegional) -> LevelRegional
      [] key = lower(LevelNational) -> LevelNational
      [] key = lower(LevelLocal) -> LevelLocal
      [] OTHER -> default

(* standardized_level of an impact level that is not falsy *)
standardized_level(impact_level) ==
    LET first == IF impact_level.kind = "list" THEN impact_level.items[1]
                 ELSE impact_level.text
        impact_level_str == IF first # <<>> THEN strip(first) ELSE LevelGlobal
    IN  level_mapping(lower(impact_level_str), impact_level_str)

(* location_names of an impact location that is not falsy *)
location_names(impact_location) ==
    IF impact_location.kind = "list"
    THEN LET given(item) == item # <<>>
             kept == SelectSeq(impact_location.items, given)
         IN  [k \in 1..Len(kept) |-> strip(kept[k])]
    ELSE IF strip(impact_location.text) # <<>> THEN <<strip(impact_location.text)>>
    ELSE <<>>

(* _impact_level_to_db_level *)
impact_level_to_db_level(level) ==
    CASE level = LevelNational -> Some("country")
      [] level = LevelRegional -> Some("region")
      [] level = LevelLocal -> Some("country")
      [] OTHER -> None

(* _get_parent_level *)
get_parent_level(level) ==
    CASE level = "country" -> Some("region")
      [] level = "region" -> Some("continent")
      [] OTHER -> None

(* _infer_geographic_hierarchy, with the entries of the names that occur *)
infer_geographic_hierarchy(name, level) ==
    IF level = "country"
    THEN CASE name = Japan -> EastAsia [] name = China -> EastAsia
           [] name = India -> SouthAsia [] name = USA -> NorthAmerica
           [] OTHER -> UnknownRegion
    ELSE IF level = "region"
    THEN CASE name = EastAsia -> Asia [] name = SouthAsia -> Asia
           [] name = NorthAmerica -> Americas [] OTHER -> UnknownContinent
    ELSE World

LocationRow(name, level, parent_id) ==
    [name |-> name, level |-> level, parent_id |-> parent_id]

(* SELECT id FROM locations WHERE name = ? AND level = ? *)
find_location(table, name, level) ==
    IF \E k \in 1..Len(table) : table[k].name = name /\ table[k].level = level
    THEN Some(CHOOSE k \in 1..Len(table) : table[k].name = name /\ table[k].level = level)
    ELSE None

(* _get_or_create_location: the id of the row, created with its parent when
   it is not there; None when the database raises *)
get_or_create_location(table, name, level, parent_name, fails) ==
    IF fails THEN [table |-> table, id |-> None]
    ELSE IF find_location(table, name, level) # None
    THEN [table |-> table, id |-> find_location(table, name, level)]
    ELSE LET parent_level == get_parent_level(level)
             with_parent ==
                 IF parent_name # None /\ parent_name[1] # name /\ parent_level # None
                 THEN IF find_location(table, parent_name[1], parent_level[1]) # None
                      THEN [table |-> table,
                            id |-> find_location(table, parent_name[1], parent_level[1])]
                      ELSE [table |-> Append(table,
                                        LocationRow(parent_name[1], parent_level[1], None)),
                            id |-> Some(Len(table) + 1)]
                 ELSE [table |-> table, id |-> None]
         IN  [table |-> Append(with_parent.table, LocationRow(name, level, with_parent.id)),
              id |-> Some(Len(with_parent.table) + 1)]

(* the loop over location_names: location_ids, processed_names and the
   table *)
RECURSIVE process_locations(_, _, _, _)
process_locations(names, level, fails, acc) ==
    IF names = <<>> THEN acc
    ELSE LET location_name == Head(names)
             db_level == impact_level_to_db_level(level)
         IN  IF location_name # <<>>
                  /\ lower(location_name) \notin
                        {lower(World), lower(LevelGlobal), <<"n", "o", "n", "e">>, <<>>}
                  /\ db_level # None
             THEN LET got == get_or_create_location(acc.table, location_name, db_level[1],
                                Some(infer_geographic_hierarchy(location_name, db_level[1])),
                                fails)
                  IN  IF got.id # None
                      THEN process_locations(Tail(names), level, fails,
                              [table |-> got.table,
                               ids |-> Append(acc.ids, got.id[1]),
                               names |-> Append(acc.names, location_name)])
                      ELSE process_locations(Tail(names), level, fails,
                              [acc EXCEPT !.table = got.table])
             ELSE process_locations(Tail(names), level, fails, acc)

MaxLocations == 3

(* what the model may put into geographical_impact_level *)
LevelInputs ==
    { Absent, Str(<<>>), Str(<<Space>>), StrList(<<>>),
      Str(lower(LevelGlobal)), Str(LevelRegional), Str(lower(LevelLocal)),
      Str(<<Space>> \o LevelNational \o <<Space>>),
      Str(<<"C", "i", "t", "y">>),
      StrList(<<lower(LevelNational)>>) }

(* what the model may put into geographical_impact_location *)
LocationInputs ==
    { Absent, Str(<<Space>>), Str(Japan), Str(World), Str(EastAsia),
      StrList(<<Japan, Japan>>), StrList(<<Japan, <<>>, China>>),
      StrList(<<Japan, China, India, USA>>) }

(* _process_geographic_analysis(analysis) *)
ProcessGeographic(Levels, Locations) ==
    /\ geo.pc = "idle"
    /\ Len(locations) < MaxLocations
    /\ \E impact_level \in Levels, impact_location \in Locations, fails \in BOOLEAN :
         IF falsy(impact_level) \/ falsy(impact_location)
         THEN /\ geo' = [ pc |-> "done", level_in |-> Some(impact_level),
                          location_in |-> Some(impact_location), fails |-> fails,
                          level |-> Some(LevelGlobal),
                          location_ids |-> <<>>, location_names |-> <<>> ]
              /\ UNCHANGED locations
         ELSE LET level == standardized_level(impact_level)
                  done  == process_locations(location_names(impact_location), level, fails,
                              [table |-> locations, ids |-> <<>>, names |-> <<>>])
              IN  /\ geo' = [ pc |-> "done", level_in |-> Some(impact_level),
                              location_in |-> Some(impact_location), fails |-> fails,
                              level |-> Some(level),
                              location_ids |-> done.ids, location_names |-> done.names ]
                  /\ locations' = done.table
    /\ UNCHANGED <<afpVars, apiVars>>
    /\ UNCHANGED <<scoringVars, batchVars, storeVars, fetchVars, dedupVars>>

(* the next analysis of the batch *)
NextAnalysis ==
    /\ geo.pc = "done"
    /\ geo' = IdleGeo
    /\ UNCHANGED <<locations, afpVars, apiVars>>
    /\ UNCHANGED <<scoringVars, batchVars, storeVars, fetchVars, dedupVars>>

InitGeo ==
    /\ InitScoring
    /\ InitBatchIdle
    /\ InitStoreIdle
    /\ InitFetchIdle
    /\ InitDedupIdle
    /\ geo = IdleGeo
    /\ locations = <<>>
    /\ afp = IdleAfp
    /\ api = IdleApi

NextGeo ==
    \/ ProcessGeographic(LevelInputs, LocationInputs)
    \/ NextAnalysis

SpecGeo == InitGeo /\ [][NextGeo]_vars

(***************************************************************************)
(* AFPClient: the OAuth2 tokens and fetch_news                             *)
(***************************************************************************)
(* the clock counts minutes *)
MaxAfpClock == 6

(* timedelta(minutes=5) *)
expiry_margin == 5

(* token_data.get('expires_in', 18000), in minutes *)
default_expires_in == 300

(* the answers of the token endpoint: 200 with the tokens and a lifetime,
   200 without the fields, 200 with a lifetime that is no number, another
   status, and a failed request *)
TokenOk(expires_in) == [kind |-> "ok", has_tokens |-> TRUE, expires_in |-> expires_in]
TokenOkEmpty == [kind |-> "ok", has_tokens |-> FALSE, expires_in |-> default_expires_in]
TokenOkBadExpiry == [kind |-> "bad_expiry", has_tokens |-> TRUE, expires_in |-> 0]
TokenDenied == [kind |-> "http_error", has_tokens |-> FALSE, expires_in |-> 0]
TokenRaises == [kind |-> "raise", has_tokens |-> FALSE, expires_in |-> 0]

TokenAnswers ==
    {TokenOk(3), TokenOk(8), TokenOkEmpty, TokenOkBadExpiry, TokenDenied, TokenRaises}

(* the body of a token exchange of either grant: the fields are assigned one
   after the other inside the try, so a lifetime that is no number leaves
   the new tokens with the old expiry *)
token_exchange(a, grant, answer) ==
    LET logged(ok) == [a EXCEPT !.exchanges = Append(@, [grant |-> grant, ok |-> ok])]
        token(present, name) == IF present THEN Some(name) ELSE None
    IN  CASE answer.kind = "ok" ->
               [ a |-> [logged(TRUE) EXCEPT
                          !.access_token = token(answer.has_tokens, "access"),
                          !.refresh_token = token(answer.has_tokens, "refresh"),
                          !.token_expires_at = Some(a.clock + answer.expires_in)],
                 ok |-> TRUE ]
          [] answer.kind = "bad_expiry" ->
               [ a |-> [logged(FALSE) EXCEPT
                          !.access_token = token(answer.has_tokens, "access"),
                          !.refresh_token = token(answer.has_tokens, "refresh")],
                 ok |-> FALSE ]
          [] OTHER -> [a |-> logged(FALSE), ok |-> FALSE]

(* _authenticate: the password grant *)
authenticate(a, password_answer) == token_exchange(a, "password", password_answer)

(* _refresh_token_if_needed: the refresh grant, and the password grant when
   there is no refresh token or the refresh fails *)
refresh_token_if_needed(a, refresh_answer, password_answer) ==
    IF a.refresh_token = None THEN authenticate(a, password_answer)
    ELSE LET refreshed == token_exchange(a, "refresh_token", refresh_answer)
         IN  IF refreshed.ok THEN refreshed
             ELSE authenticate(refreshed.a, password_answer)

(* a variant that takes a token for valid until its expiry *)
ensure_authenticated_no_margin(a, refresh_answer, password_answer) ==
    IF a.access_token # None /\ a.token_expires_at # None
         /\ a.clock < a.token_expires_at[1]
    THEN [a |-> a, ok |-> TRUE]
    ELSE refresh_token_if_needed(a, refresh_answer, password_answer)

(* _ensure_authenticated *)
ensure_authenticated(a, refresh_answer, password_answer) ==
    IF a.access_token # None /\ a.token_expires_at # None
         /\ a.clock < a.token_expires_at[1] - expiry_margin
    THEN [a |-> a, ok |-> TRUE]
    ELSE refresh_token_if_needed(a, refresh_answer, password_answer)

(* AFPClient.fetch_news: the result status, and whether the search request
   went out *)
afp_fetch_news(a, refresh_answer, password_answer, search_answer) ==
    LET started == [a EXCEPT !.exchanges = <<>>, !.search_sent = FALSE,
                       !.before = [clock |-> a.clock, access_token |-> a.access_token,
                                   token_expires_at |-> a.token_expires_at]]
        auth == ensure_authenticated(started, refresh_answer, password_answer)
    IN  IF ~a.configured THEN [started EXCEPT !.ret = Some("error")]
        ELSE IF ~auth.ok THEN [auth.a EXCEPT !.ret = Some("error")]
        ELSE [auth.a EXCEPT !.search_sent = TRUE,
                            !.ret = Some(IF search_answer = "docs" THEN "success"
                                         ELSE "error")]

AfpFetchNews(Answers) ==
    /\ \E refresh_answer \in Answers, password_answer \in Answers,
          search_answer \in {"docs", "http_error", "raise"} :
         afp' = afp_fetch_news(afp, refresh_answer, password_answer, search_answer)
    /\ UNCHANGED <<geoVars, apiVars>>
    /\ UNCHANGED <<scoringVars, batchVars, storeVars, fetchVars, dedupVars>>

(* a minute passes *)
AfpTick ==
    /\ afp.clock < MaxAfpClock
    /\ afp' = [afp EXCEPT !.clock = @ + 1]
    /\ UNCHANGED <<geoVars, apiVars>>
    /\ UNCHANGED <<scoringVars, batchVars, storeVars, fetchVars, dedupVars>>

InitAfp ==
    /\ InitScoring
    /\ InitBatchIdle
    /\ InitStoreIdle
    /\ InitFetchIdle
    /\ InitDedupIdle
    /\ geo = IdleGeo
    /\ locations = <<>>
    /\ \E configured \in BOOLEAN : afp = [IdleAfp EXCEPT !.configured = configured]
    /\ api = IdleApi

NextAfp ==
    \/ AfpFetchNews(TokenAnswers)
    \/ AfpTick

SpecAfp == InitAfp /\ [][NextAfp]_vars

(***************************************************************************)
(* get_news: the handler of GET /api/news, from the call of                *)
(* fetch_unified_news to the response                                      *)
(***************************************************************************)
(* a text made of parts, as an f-string is; it reads as a message when a
   part of it is not empty *)
readable(text) == \E k \in DOMAIN text : text[k] # ""

(* a response: the keys of the dict and the values of the keys that matter
   here; a key that is not in keys has the value None *)
Response(keys, status, message, error, gemini_analyzed, articles) ==
    [ keys |-> keys, status |-> status, message |-> message, error |-> error,
      gemini_analyzed |-> gemini_analyzed, articles |-> articles ]

(* an article of result["articles"] and the gemini_analysis set on it *)
Entry(article, analysis) == [article |-> article, gemini_analysis |-> analysis]

(* fetch_unified_news without sources *)
no_sources_result ==
    Response({"status", "error", "sources_used", "articles"}, "error",
             None, Some(<<"No news sources available">>), None, <<>>)

(* the result of fetch_unified_news with sources *)
unified_result(articles) ==
    Response({"status", "totalSources", "sourcesUsed", "sourcesFailed",
              "totalArticles", "crossSourceDuplicatesRemoved", "articles"},
             "success", None, None, None,
             [k \in 1..Len(articles) |-> Entry(articles[k], None)])

(* a variant of the handler's except clause that returns the text alone *)
aggregation_failed_no_status(e) ==
    Response({"message"}, "", Some(<<"News aggregation failed: ", e>>), None, None, <<>>)

(* except Exception as e: the response of the handler's except clause *)
aggregation_failed(e) ==
    Response({"status", "message"}, "error",
             Some(<<"News aggregation failed: ", e>>), None, None, <<>>)

(* what fetch_unified_news gives the handler *)
FetchRaises(e) == [kind |-> "raise", e |-> e, articles |-> <<>>]
FetchNoSources == [kind |-> "no_sources", e |-> "", articles |-> <<>>]
FetchArticles(articles) == [kind |-> "success", e |-> "", articles |-> articles]

(* what the scorer gives the handler: GeminiService() raises, or
   analyze_articles_batch returns status error, or status success with the
   analyses of the first prompt, the last short of them missing *)
ScorerRaises(e) == [kind |-> "raise", e |-> e, short |-> 0]
ScorerError == [kind |-> "error", e |-> "", short |-> 0]
ScorerSuccess(short) == [kind |-> "success", e |-> "", short |-> short]

(* what log_articles_with_gemini_analysis does *)
SheetsAnswers == {"success", "error", "raise"}

(* the analysis the scorer produced for the article at position i of the
   list it was given *)
analysis_of(articles, i) == [of |-> articles[i].url, position |-> i]

(* first_analyses *)
first_analyses(new_articles, short) ==
    [i \in 1..(Len(new_articles) - short) |-> analysis_of(new_articles, i)]

(* the loop over new_articles that inserts the analysed ones *)
RECURSIVE insert_analysed(_, _, _, _)
insert_analysed(table, new_articles, n, fails) ==
    IF new_articles = <<>> \/ n = 0 THEN table
    ELSE insert_analysed(insert_article(table, Head(new_articles), fails).table,
                         Tail(new_articles), n - 1, fails)

(* for i, article in enumerate(result["articles"]):
       if i < len(first_analyses): article["gemini_analysis"] = first_analyses[i] *)
attach_analyses(entries, analyses) ==
    [i \in 1..Len(entries) |->
        IF i <= Len(analyses) THEN Entry(entries[i].article, Some(analyses[i]))
        ELSE entries[i]]

(* get_news: the response, the path taken, the list sent to the scorer and
   the articles table afterwards *)
get_news(table, fetch, scorer, insert_fails, sheets) ==
    LET out(path, response, new_articles, t) ==
            [path |-> path, ret |-> response, new_articles |-> new_articles, table |-> t]
        with(r, ks, analyzed) ==
            [r EXCEPT !.keys = @ \cup ks, !.gemini_analyzed = Some(analyzed)]
        result == unified_result(fetch.articles)
        stored(a) == check_url_exists(table, a.url, FALSE)
        fresh(a) == ~stored(a)
        new_articles == SelectSeq(fetch.articles, fresh)
        analyses == first_analyses(new_articles, scorer.short)
    IN  CASE fetch.kind = "raise" ->
               out("exception", aggregation_failed(fetch.e), <<>>, table)
          [] fetch.kind = "no_sources" ->
               out("no_sources", no_sources_result, <<>>, table)
          [] fetch.articles = <<>> ->
               out("no_articles",
                   with(result, {"gemini_analyzed", "analyzed_sources"}, FALSE),
                   <<>>, table)
          [] scorer.kind = "raise" ->
               out("exception", aggregation_failed(scorer.e), <<>>, table)
          [] new_articles = <<>> ->
               out("all_stored",
                   with(result, {"gemini_analyzed", "database_inserted",
                                 "duplicate_count", "analyzed_sources"}, FALSE),
                   <<>>, table)
          [] scorer.kind = "error" ->
               out("scoring_failed",
                   with(result, {"gemini_analyzed", "gemini_error",
                                 "analyzed_sources"}, FALSE),
                   new_articles, table)
          [] OTHER ->
               out(IF sheets = "raise" THEN "sheets_failed" ELSE "scored",
                   [with(result,
                         {"gemini_analyzed", "prompt_versions", "database_inserted",
                          "gemini_stats", "sheets_logged", "analyzed_sources"}
                           \cup (IF sheets = "raise" THEN {"sheets_error"}
                                 ELSE {"total_logged"}),
                         TRUE)
                      EXCEPT !.articles = attach_analyses(@, analyses)],
                   new_articles,
                   insert_analysed(table, new_articles, Len(analyses), insert_fails))

(* three articles as fetch_unified_news returns them *)
ApiArticles ==
    << Art(<<"f">>, <<"/", "1">>, "afp"),
       Art(<<"k">>, <<"/", "2">>, "newsapi"),
       Art(<<"p">>, <<"/", "3">>, "newsdata") >>

(* the lists of these articles without a repetition, in any order *)
ApiArticleLists ==
    LET picks == UNION {[1..n -> DOMAIN ApiArticles] : n \in 0..Len(ApiArticles)}
        once(p) == \A i, j \in DOMAIN p : p[i] = p[j] => i = j
    IN  {[k \in DOMAIN p |-> ApiArticles[p[k]]] : p \in {q \in picks : once(q)}}

ApiFetches ==
    {FetchRaises(""), FetchRaises("timeout"), FetchNoSources}
      \cup {FetchArticles(articles) : articles \in ApiArticleLists}

ApiScorers == {ScorerRaises("no key"), ScorerError, ScorerSuccess(0), ScorerSuccess(1)}

(* one request to /api/news *)
ApiGetNews(Fetches, Scorers) ==
    /\ api.pc = "idle"
    /\ \E fetch \in Fetches, scorer \in Scorers, insert_fails \in BOOLEAN,
          sheets \in SheetsAnswers :
         LET o == get_news(api.table, fetch, scorer, insert_fails, sheets)
         IN  api' = [ pc |-> "done", table |-> o.table, path |-> o.path,
                      fetched |-> fetch.articles, new_articles |-> o.new_articles,
                      ret |-> Some(o.ret) ]
    /\ UNCHANGED <<geoVars, afpVars>>
    /\ UNCHANGED <<scoringVars, batchVars, storeVars, fetchVars, dedupVars>>

(* the response has been sent; the table stays *)
ApiNextRequest ==
    /\ api.pc = "done"
    /\ api' = [IdleApi EXCEPT !.table = api.table]
    /\ UNCHANGED <<geoVars, afpVars>>
    /\ UNCHANGED <<scoringVars, batchVars, storeVars, fetchVars, dedupVars>>

InitApi ==
    /\ InitScoring
    /\ InitBatchIdle
    /\ InitStoreIdle
    /\ InitFetchIdle
    /\ InitDedupIdle
    /\ InitMoreIdle

NextApi ==
    \/ ApiGetNews(ApiFetches, ApiScorers)
    \/ ApiNextRequest

SpecApi == InitApi /\ [][NextApi]_vars

(***************************************************************************)
(* Properties                                                              *)
(***************************************************************************)
Checked(s) == chk[s] # None
LastCheck(s) == chk[s][1]

(* C1: analyze_articles_batch issues the external call for a batch only when
   the admission check for that batch passed; a batch whose check failed on a
   quota predicate is abandoned.  (Spec) *)
C1_CallOnlyWhenAdmitted ==
    \A i \in Inv : pc[i] = "record" => loc[i].status[1].can_proceed

(* C2: on one service, the scoring calls issued within one wall-clock minute
   never exceed requests_per_minute and those issued on one date never exceed
   requests_per_day.  (SpecQuota) *)
C2_QuotaNeverExceeded ==
    \A s \in Svc : /\ hist[s].calls_in_minute <= requests_per_minute
                   /\ hist[s].calls_in_day <= requests_per_day

(* C3: between two consecutive scoring calls issued through one limiter at
   least target_batch_interval seconds elapse.  (Spec) *)
C3_PacingBetweenCalls ==
    \A s \in Svc : hist[s].last_gap # None
                     => hist[s].last_gap[1] >= target_batch_interval

(* C4: limiter state is shared by the /api/news requests of the process, so
   the scoring calls of two requests are at least target_batch_interval
   apart.  (SpecNews) *)
C4_SharedAcrossRequests ==
    \A i, j \in Inv :
        (i # j /\ hist[i].last_call_at # None /\ hist[j].last_call_at # None)
          => \/ hist[i].last_call_at[1] - hist[j].last_call_at[1] >= target_batch_interval
             \/ hist[j].last_call_at[1] - hist[i].last_call_at[1] >= target_batch_interval

(* C5: the admission check and the counter update of a call are atomic with
   respect to other invocations: when an invocation issues its call, no other
   request has been recorded since the check that let it through.  (SpecConc) *)
C5_CheckAndRecordAtomic ==
    \A i \in Inv : pc[i] = "record" => loc[i].seen = hist[svc[i]].recorded

(* C6: at every admission check, if the wall-clock minute differs from the
   one of the last minute reset the minute counters are zero when the
   predicates are evaluated, and likewise the daily counter when the date
   differs.  (Spec) *)
C6_CountersResetOnChange ==
    \A s \in Svc : Checked(s) =>
        /\ LastCheck(s).minute_changed =>
              /\ LastCheck(s).requests_at_eval = 0
              /\ LastCheck(s).tokens_at_eval = 0
        /\ LastCheck(s).day_changed => LastCheck(s).daily_at_eval = 0

(* C7: every external call issued to the model has been recorded by one
   record_request before any later admission check, and record_request never
   runs without a call.  (Spec) *)
C7_EveryCallRecorded ==
    \A s \in Svc : /\ hist[s].recorded <= hist[s].issued
                   /\ Checked(s) => LastCheck(s).issued = LastCheck(s).recorded

(* C8: a check made less than target_batch_interval seconds after the last
   recorded request fails on timing (also after zero seconds, and however
   many checks are made); a check made once the interval has elapsed, or with
   no recorded request, passes on timing, so that it is admitted exactly when
   the quota predicates hold.  (Spec) *)
C8_TimingGate ==
    \A s \in Svc : Checked(s) =>
        LET c == LastCheck(s)
            quota == c.requests_ok /\ c.tokens_ok /\ c.daily_ok
        IN  IF c.last_record_at = None
            THEN /\ c.timing
                 /\ c.result.time_since_last_request = None
                 /\ c.result.seconds_until_next_allowed = 0
                 /\ c.result.can_proceed = quota
            ELSE LET elapsed == c.at - c.last_record_at[1]
                 IN  /\ c.result.time_since_last_request = Some(elapsed)
                     /\ elapsed < target_batch_interval
                          => ~c.timing /\ ~c.result.can_proceed
                     /\ elapsed >= target_batch_interval
                          => /\ c.timing
                             /\ c.result.seconds_until_next_allowed = 0
                             /\ c.result.can_proceed = quota

(* C8 witness: a check made exactly target_batch_interval seconds after a
   recorded request passed on timing *)
C8_Witness ==
    \E s \in Svc : /\ Checked(s)
                   /\ LastCheck(s).last_record_at # None
                   /\ LastCheck(s).at - LastCheck(s).last_record_at[1]
                        = target_batch_interval
                   /\ LastCheck(s).timing

(* C9 as stated: limiter state changes only when a request is recorded; an
   admission check leaves all of it unchanged.  (Spec) *)
C9_OnlyRecordChangesState ==
    [][\A s \in Svc : lim'[s] # lim[s] => hist'[s].recorded = hist[s].recorded + 1]_vars

RecordChange(s) ==
    /\ hist'[s].recorded = hist[s].recorded + 1
    /\ \E i \in Inv : svc[i] = s /\ pc[i] = "record"
    /\ lim'[s].requests_this_minute = lim[s].requests_this_minute + 1
    /\ lim'[s].daily_requests = lim[s].daily_requests + 1
    /\ lim'[s].tokens_this_minute >= lim[s].tokens_this_minute
    /\ lim'[s].last_request_time = Some(now)
    /\ lim'[s].current_minute = lim[s].current_minute
    /\ lim'[s].last_reset_date = lim[s].last_reset_date

LazyResetChange(s) ==
    /\ hist'[s].recorded = hist[s].recorded
    /\ Checked(s)' /\ LastCheck(s)'.at = now
    /\ lim'[s].last_request_time = lim[s].last_request_time
    /\ \/ /\ lim'[s].current_minute = lim[s].current_minute
          /\ lim'[s].requests_this_minute = lim[s].requests_this_minute
          /\ lim'[s].tokens_this_minute = lim[s].tokens_this_minute
       \/ /\ MinuteOf(now) # lim[s].current_minute
          /\ lim'[s].current_minute = MinuteOf(now)
          /\ lim'[s].requests_this_minute = 0
          /\ lim'[s].tokens_this_minute = 0
    /\ \/ /\ lim'[s].last_reset_date = lim[s].last_reset_date
          /\ lim'[s].daily_requests = lim[s].daily_requests
       \/ /\ DateOf(now) > lim[s].last_reset_date
          /\ lim'[s].last_reset_date = DateOf(now)
          /\ lim'[s].daily_requests = 0

(* C9 amended: limiter state changes only by record_request after a completed
   call (counts + 1, tokens added, last_request_time := now) or by the lazy
   reset of an admission check, which zeroes the minute counters when the
   minute value changed and the daily counter when the date advanced, and
   changes nothing else.  (Spec) *)
C9_FrameWithLazyReset ==
    [][\A s \in Svc : lim'[s] # lim[s] => RecordChange(s) \/ LazyResetChange(s)]_vars

(* C9 witness: after a recorded request, a check has zeroed the minute
   counters and kept last_request_time and the daily count *)
C9_Witness ==
    \E s \in Svc : /\ Checked(s)
                   /\ LastCheck(s).who = "can_make_request"
                   /\ LastCheck(s).at = now
                   /\ hist[s].recorded > 0
                   /\ lim[s].last_request_time # None
                   /\ lim[s].requests_this_minute = 0
                   /\ lim[s].daily_requests > 0

(* C10: a success result for N articles holds, for each active prompt, a
   results list of exactly N elements, the elements of each batch at the
   positions of its articles.  (SpecScorer) *)
C10_OneResultPerArticle ==
    \A i \in Inv :
        (ret[i] # None /\ ret[i][1].status = "success") =>
            \A p \in ret[i][1].prompt_versions :
                LET r == ret[i][1].results_by_prompt[p].results
                IN  /\ ResultsLen(r) = ret[i][1].total_articles
                    /\ \A k \in 1..Len(r) :
                          r[k].len = Min(max_articles_per_batch,
                                         ret[i][1].total_articles - r[k].start)

(* a record is the neutral fallback: sentiment neutral, the six emotion
   scores 0.0, reasoning "Parsing failed" *)
IsFallbackRecord(r) ==
    /\ r.kind = "dict"
    /\ r.sentiment = "neutral"
    /\ r.emotions # None
    /\ DOMAIN r.emotions[1] = EmotionNames
    /\ \A e \in EmotionNames : r.emotions[1][e] = 0
    /\ r.reasoning = "Parsing failed"

(* C11: for a batch of N articles, when the answer (its fence markers cut
   off) is not valid JSON, is not a JSON object, or lacks the key of an
   active prompt, that prompt's results for the batch are exactly N fallback
   records; a prompt whose key is present keeps what was parsed under it.
   (SpecBatch) *)
C11_FallbackOnParseFailure ==
    bat_results # None =>
        LET b == bat_in[1]
            v == json_loads(clean_text(b.text))
        IN  \A p \in 1..b.np :
                IF v = None \/ v[1].type # "object" \/ p \notin DOMAIN v[1].keys
                THEN /\ Len(bat_results[1][p]) = b.n
                     /\ \A k \in 1..Len(bat_results[1][p]) :
                           IsFallbackRecord(bat_results[1][p][k])
                ELSE bat_results[1][p] = v[1].keys[p].items

(* C11 witness: 3 articles, 2 active prompts, a JSON object that holds the
   first prompt's key only: the call returned the first prompt's parsed
   records and 3 fallback records for the second *)
C11_Witness ==
    /\ bat_ret # None
    /\ bat_ret[1].status = "success"
    /\ bat_in[1].n = 3
    /\ bat_in[1].np = 2
    /\ bat_in[1].text = <<Json(JObject(<<JList(Repeat(ModelFull, 3))>>))>>
    /\ bat_ret[1].results_by_prompt[1].results = Repeat(ModelFull, 3)
    /\ Len(bat_ret[1].results_by_prompt[2].results) = 3
    /\ \A k \in 1..3 : IsFallbackRecord(bat_ret[1].results_by_prompt[2].results[k])

(* C12: every result returned in results_by_prompt, parsed or fallback,
   holds all six emotion scores.  (SpecBatch) *)
C12_AllEmotionsPresent ==
    (bat_ret # None /\ bat_ret[1].status = "success") =>
        \A p \in bat_ret[1].prompt_versions :
            \A k \in 1..Len(bat_ret[1].results_by_prompt[p].results) :
                LET r == bat_ret[1].results_by_prompt[p].results[k]
                IN  /\ r.emotions # None
                    /\ DOMAIN r.emotions[1] = EmotionNames

(* C13: the table never holds two rows with one URL; an article whose URL
   the lookup found stored is not scored; the insert of a URL that is stored
   by then adds no row and returns None, is not counted as inserted, and the
   request still returns status success.  (SpecStore) *)
C13_OneRecordPerUrl ==
    /\ \A j, k \in 1..Len(store) : store[j].url_id = store[k].url_id => j = k
    /\ \A r \in Req :
         /\ \A c \in Range(rq[r].checks) : (c.stored /\ ~c.failed) => ~c.kept
         /\ \A x \in Range(rq[r].inserts) :
                x.stored_before => (x.article_id = None /\ x.rows_added = 0)
         /\ rq[r].database_inserted =
                Cardinality({k \in 1..Len(rq[r].inserts) :
                               rq[r].inserts[k].article_id # None})
         /\ rq[r].pc = "done" =>
                /\ rq[r].ret[1].status = "success"
                /\ rq[r].ret[1].gemini_analyzed =>
                       rq[r].ret[1].database_inserted = Some(rq[r].database_inserted)

(* C13 witness: two requests both looked a URL up and found it absent, both
   tried to insert it, the first insert made the row, the second returned
   None, and both requests returned success *)
C13_Witness ==
    \E r1, r2 \in Req :
        /\ r1 # r2
        /\ rq[r1].pc = "done" /\ rq[r2].pc = "done"
        /\ rq[r1].ret[1].status = "success" /\ rq[r2].ret[1].status = "success"
        /\ \E c1 \in Range(rq[r1].checks), c2 \in Range(rq[r2].checks) :
              /\ c1.url = UrlU /\ c2.url = UrlU
              /\ ~c1.stored /\ ~c2.stored /\ ~c1.failed /\ ~c2.failed
        /\ \E x1 \in Range(rq[r1].inserts), x2 \in Range(rq[r2].inserts) :
              /\ x1.url = UrlU /\ x2.url = UrlU
              /\ x1.article_id # None
              /\ x2.article_id = None /\ x2.stored_before /\ ~x2.failed
        /\ rq[r2].ret[1].database_inserted = Some(0)
        /\ Cardinality({k \in 1..Len(store) : store[k].url_id = UrlU}) = 1

(* the sources of a list of sources_failed entries *)
FailedSources(ret_) == {ret_.sourcesFailed[k].source : k \in 1..Len(ret_.sourcesFailed)}

(* the provider of source s made the fetch of s fail *)
SourceFailed(s) == fq.answers[s][1].kind \in {"http_error", "raise"}

(* the scenario of three sources: the second fails, the first and the third
   return five articles each, all titles distinct *)
ThreeSourceScenario ==
    /\ fq.pc = "done"
    /\ cfg = DefaultConfig
    /\ fq.page_size = 20
    /\ fq.answers["afp"] = Some(Docs(FiveDocs("afp")))
    /\ SourceFailed("newsapi")
    /\ fq.answers["newsdata"] = Some(Docs(FiveDocs("newsdata")))

(* C14: a fetch that has sources returns only after every source has
   returned, and then with status success whatever the sources did; a source
   whose fetch returned an error or raised has no article in the collected
   or returned lists, is in sourcesFailed and is not in sourcesUsed, while
   every article of a source that succeeded with articles is collected and
   the source is in sourcesUsed.  In the three-source scenario the result
   has sources 1 and 3 in sourcesUsed, source 2 in sourcesFailed, ten
   articles and no duplicate removed *)
C14_FailingSourceNeverAborts ==
    (fq.pc = "done" /\ cfg.clients # <<>>) =>
        LET r == fq.ret[1] IN
        /\ r.status = "success"
        /\ \A s \in Range(cfg.clients) : fq.answers[s] # None
        /\ \A s \in Range(cfg.clients) :
              IF SourceFailed(s)
              THEN /\ s \notin Range(r.sourcesUsed)
                   /\ s \in FailedSources(r)
                   /\ \A a \in Range(fq.all_articles) \cup Range(r.articles) :
                          a.api_source # s
              ELSE /\ s \notin FailedSources(r)
                   /\ Range(fq.results[s][1].articles) \subseteq Range(fq.all_articles)
                   /\ fq.results[s][1].articles # <<>> => s \in Range(r.sourcesUsed)
        /\ ThreeSourceScenario =>
              /\ r.sourcesUsed = <<"afp", "newsdata">>
              /\ FailedSources(r) = {"newsapi"} /\ Len(r.sourcesFailed) = 1
              /\ r.totalArticles = 10
              /\ Len(r.articles) = 10
              /\ r.crossSourceDuplicatesRemoved = 0

(* C14 witness: the three-source scenario has run to its result, the second
   source having raised inside its fetch *)
C14_Witness ==
    /\ ThreeSourceScenario
    /\ fq.answers["newsapi"] = Some(Raises)
    /\ fq.ret[1].status = "success"
    /\ fq.ret[1].totalArticles = 10

(* the token-overlap ratio of two titles, intersection over union of their
   lower-cased whitespace-token sets, is at least num / den *)
OverlapRatioAtLeast(t1, t2, num, den) ==
    LET w1 == Range(split(lower(t1)))
        w2 == Range(split(lower(t2)))
    IN  /\ w1 \cup w2 # {}
        /\ den * Cardinality(w1 \cap w2) >= num * Cardinality(w1 \cup w2)

(* is_duplicate was called for an article that has a URL and a title, and
   both lookups worked *)
PlainDuplicateCheck ==
    /\ dq.op = "is_duplicate"
    /\ ~dq.url_fails /\ ~dq.title_fails
    /\ dq.article.url # <<>> /\ dq.article.title # <<>>

(* C15: in the store check of an article whose URL is not stored, a stored
   title with a token-overlap ratio of at least 0.8 makes the article a
   duplicate with reason "Title similarity", and when every stored title has
   a ratio below 0.7 the article is not a duplicate *)
C15_TokenOverlapDecides ==
    (PlainDuplicateCheck
       /\ \A k \in 1..Len(dq.table) : dq.table[k].url_id # dq.article.url) =>
        /\ (\E k \in 1..Len(dq.table) :
               OverlapRatioAtLeast(dq.article.title, dq.table[k].title, 8, 10))
              => dq.ret = <<TRUE, Some("Title similarity")>>
        /\ (\A k \in 1..Len(dq.table) :
               ~OverlapRatioAtLeast(dq.article.title, dq.table[k].title, 7, 10))
              => dq.ret = <<FALSE, None>>

(* C16: in a store check with working lookups, an article whose URL equals
   a stored URL after trimming and lower-casing both is a duplicate with
   reason "URL match", also when its title is similar to a stored one, and
   check_url_exists finds such a URL *)
C16_NormalisedUrlMatch ==
    (\E k \in 1..Len(dq.table) :
         lower(strip(dq.table[k].url_id)) = lower(strip(dq.article.url))) =>
        /\ PlainDuplicateCheck => dq.ret = <<TRUE, Some("URL match")>>
        /\ (dq.op = "check_url_exists" /\ ~dq.url_fails /\ dq.article.url # <<>>)
              => dq.ret[1]

(* C16 amended: an article whose URL is equal, character for character, to
   a stored URL is a duplicate with reason "URL match" whenever it has a URL
   and a title and the URL lookup works, whatever the titles are; and
   check_url_exists returns True for such a URL when its lookup works *)
C16_ExactUrlMatch ==
    (\E k \in 1..Len(dq.table) : dq.table[k].url_id = dq.article.url) =>
        /\ (dq.op = "is_duplicate" /\ ~dq.url_fails
               /\ dq.article.url # <<>> /\ dq.article.title # <<>>)
              => dq.ret = <<TRUE, Some("URL match")>>
        /\ (dq.op = "check_url_exists" /\ ~dq.url_fails) => dq.ret[1]

(* C16 witness: is_duplicate was asked about an article whose URL is stored
   and whose title is similar to a stored title, and said "URL match" *)
C16_Witness ==
    /\ PlainDuplicateCheck
    /\ \E k \in 1..Len(dq.table) : dq.table[k].url_id = dq.article.url
    /\ \E k \in 1..Len(dq.table) :
          ratio_at_least_threshold(lower(dq.article.title), lower(dq.table[k].title))
    /\ dq.ret = <<TRUE, Some("URL match")>>

(* C17: an article without a URL or without a title that reached the
   cross-source pass is in the list the pass returns *)
C17_IncompleteArticlePasses ==
    (fq.pc = "done" /\ cfg.clients # <<>>) =>
        \A a \in Range(fq.all_articles) :
            (a.url = <<>> \/ a.title = <<>>) => a \in Range(fq.unique_articles)

(* the URL lookup of the last duplicate check was made and failed *)
UrlLookupFailed ==
    /\ dq.url_fails
    /\ \/ dq.op = "check_url_exists"
       \/ dq.op = "is_duplicate" /\ dq.article.url # <<>> /\ dq.article.title # <<>>

(* the title lookup of the last duplicate check was made and failed *)
TitleLookupFailed ==
    /\ dq.op = "is_duplicate"
    /\ dq.title_fails
    /\ dq.article.url # <<>> /\ dq.article.title # <<>>
    /\ dq.url_fails \/ \A k \in 1..Len(dq.table) : dq.table[k].url_id # dq.article.url

(* C18 as stated: whenever a lookup of a duplicate check failed, the article
   is reported as not duplicate *)
C18_AnyLookupFailureFailsOpen ==
    (UrlLookupFailed \/ TitleLookupFailed) => dq.ret = <<FALSE, None>>

(* C18 amended: a lookup that fails counts as a lookup without a match.  A
   failed URL lookup never gives "URL match", and check_url_exists then
   returns False; a failed title lookup gives (False, None); after a failed
   URL lookup is_duplicate reports a duplicate exactly when the title
   lookup works and finds a similar stored title, with reason "Title
   similarity" *)
C18_FailedLookupIsNoMatch ==
    /\ UrlLookupFailed =>
          /\ dq.ret[2] # Some("URL match")
          /\ dq.op = "check_url_exists" => dq.ret = <<FALSE, None>>
          /\ dq.op = "is_duplicate" =>
                IF ~dq.title_fails
                     /\ \E k \in 1..Len(dq.table) :
                           ratio_at_least_threshold(lower(dq.article.title),
                                                    lower(dq.table[k].title))
                THEN dq.ret = <<TRUE, Some("Title similarity")>>
                ELSE dq.ret = <<FALSE, None>>
    /\ TitleLookupFailed => dq.ret = <<FALSE, None>>

(* C18 witness: both lookups of is_duplicate failed for an article whose URL
   is stored, and the article was reported as not duplicate *)
C18_Witness ==
    /\ UrlLookupFailed /\ TitleLookupFailed
    /\ \E k \in 1..Len(dq.table) : dq.table[k].url_id = dq.article.url
    /\ dq.ret = <<FALSE, None>>

(* C19: the returned articles are in non-decreasing configured priority of
   their sources, and two articles of one source are in the order in which
   the source returned them *)
C19_PriorityOrderStable ==
    (fq.pc = "done" /\ cfg.clients # <<>>) =>
        LET A == fq.ret[1].articles IN
        \A i, j \in 1..Len(A) : i < j =>
            /\ cfg.priority[A[i].api_source] <= cfg.priority[A[j].api_source]
            /\ A[i].api_source = A[j].api_source =>
                  LET returned == fq.results[A[i].api_source][1].articles
                  IN  IndexOf(returned, A[i]) < IndexOf(returned, A[j])

(* C19 witness: the source of the highest priority is the last client of the
   configuration, and the result has two of its articles ahead of two
   articles of the first client *)
C19_Witness ==
    /\ fq.pc = "done"
    /\ cfg = SmallConfig
    /\ Len(fq.ret[1].articles) = 4
    /\ fq.ret[1].articles[1].api_source = "afp"
    /\ fq.ret[1].articles[2].api_source = "afp"
    /\ fq.ret[1].articles[3].api_source = "newsdata"
    /\ fq.ret[1].articles[4].api_source = "newsdata"

(* C20 as stated: the returned articles are the first page_size entries of
   the deduplicated list, all of them when there are fewer *)
C20_TruncatesToPageSize ==
    (fq.pc = "done" /\ cfg.clients # <<>>) =>
        /\ fq.ret[1].articles =
              SubSeq(fq.unique_articles, 1, Min(fq.page_size, Len(fq.unique_articles)))
        /\ fq.ret[1].totalArticles = Len(fq.ret[1].articles)

(* C20 amended: with m the smaller of page_size and the configured
   total_daily_limit, the returned articles are the first m entries of the
   deduplicated, priority-ordered list (all of them when there are fewer;
   for a negative m, all but the last -m), and totalArticles is their
   number *)
C20_TruncatesToCappedSize ==
    (fq.pc = "done" /\ cfg.clients # <<>>) =>
        LET m == IF fq.page_size <= cfg.total_daily_limit
                 THEN fq.page_size ELSE cfg.total_daily_limit
            n == Len(fq.unique_articles)
            kept == IF m >= n THEN n ELSE IF m >= 0 THEN m ELSE IF n + m >= 0 THEN n + m ELSE 0
        IN  /\ fq.ret[1].articles = SubSeq(fq.unique_articles, 1, kept)
            /\ fq.ret[1].totalArticles = Len(fq.ret[1].articles)

(* C20 witness: twenty articles were asked for under a total_daily_limit of
   four, more than four remained after the duplicates were removed, and
   four were returned *)
C20_Witness ==
    /\ fq.pc = "done"
    /\ cfg = SmallConfig
    /\ fq.page_size = 20
    /\ Len(fq.unique_articles) > 4
    /\ fq.ret[1].totalArticles = 4

(* C21: after _process_geographic_analysis the geographical_impact_level
   of the analysis is one of Local, National, Regional, Global, whatever the
   model returned for it *)
C21_LevelInClosedVocabulary ==
    geo.pc = "done" =>
        geo.level \in {Some(LevelLocal), Some(LevelNational),
                       Some(LevelRegional), Some(LevelGlobal)}

(* C22: after _process_geographic_analysis the analysis carries between one
   and three location codes, no code twice *)
C22_OneToThreeDistinctCodes ==
    geo.pc = "done" =>
        /\ Len(geo.location_ids) >= 1
        /\ Len(geo.location_ids) <= 3
        /\ Cardinality(Range(geo.location_ids)) = Len(geo.location_ids)

(* the client held, when fetch_news began, an access token whose recorded
   expiry was more than five minutes away *)
HeldFreshToken ==
    /\ afp.before.access_token # None
    /\ afp.before.token_expires_at # None
    /\ afp.before.token_expires_at[1] - afp.before.clock > 5

(* C23: a fetch_news that has returned has a result, error or success.  It
   sent the search request only if it held a fresh token or its last token
   exchange succeeded; the password grant is tried only when there was no
   refresh exchange or that one failed; and when no fresh token was held
   and no exchange succeeded, or the client is not configured, the result
   is an error and no search request went out *)
C23_SearchOnlyWhenAuthenticated ==
    afp.ret # None =>
        LET n == Len(afp.exchanges) IN
        /\ afp.ret \in {Some("success"), Some("error")}
        /\ afp.search_sent =>
              (HeldFreshToken \/ (n > 0 /\ afp.exchanges[n].ok))
        /\ HeldFreshToken => n = 0
        /\ n <= 2
        /\ \A k \in 1..n :
              afp.exchanges[k].grant = "password" =>
                  /\ k = n
                  /\ k = 2 => (afp.exchanges[1].grant = "refresh_token"
                                 /\ ~afp.exchanges[1].ok)
        /\ (~afp.configured
              \/ (~HeldFreshToken /\ \A k \in 1..n : ~afp.exchanges[k].ok)) =>
              (afp.ret = Some("error") /\ ~afp.search_sent)
        /\ afp.ret = Some("success") => afp.search_sent

(* C23 witness: the token was within the margin of its expiry, the refresh
   exchange failed, the password exchange succeeded and the search request
   was sent *)
C23_Witness ==
    /\ afp.ret # None
    /\ afp.before.access_token # None
    /\ ~HeldFreshToken
    /\ afp.before.token_expires_at[1] > afp.before.clock
    /\ afp.exchanges = << [grant |-> "refresh_token", ok |-> FALSE],
                          [grant |-> "password", ok |-> TRUE] >>
    /\ afp.search_sent

(* C25: every article of a successful source fetch has a title and a URL
   that are not empty, and the api_source of the client that produced it,
   one of afp, newsapi, newsdata *)
C25_ArticlesHaveTitleUrlAndTag ==
    \A s \in DOMAIN fq.results :
        (fq.results[s] # None /\ fq.results[s][1].status = "success") =>
            \A a \in Range(fq.results[s][1].articles) :
                /\ a.title # <<>>
                /\ a.url # <<>>
                /\ a.api_source = s
                /\ a.api_source \in {"afp", "newsapi", "newsdata"}

(* two titles are similar: the words they share are more than 0.7 of the
   words of the one that has more *)
SimilarTitles(a, b) ==
    LET wa == Range(split(lower(strip(a.title))))
        wb == Range(split(lower(strip(b.title))))
        most == IF Cardinality(wa) >= Cardinality(wb) THEN Cardinality(wa)
                ELSE Cardinality(wb)
    IN  wa # {} /\ wb # {} /\ 10 * Cardinality(wa \cap wb) > 7 * most

(* the list the cross-source pass returned is a subsequence of the list it
   was given, and no retained title is similar to an earlier retained one *)
FirstSeenWins ==
    LET I == fq.all_articles
        O == fq.unique_articles
    IN  /\ Range(O) \subseteq Range(I)
        /\ \A i, j \in 1..Len(O) : i < j =>
              /\ IndexOf(I, O[i]) < IndexOf(I, O[j])
              /\ ~SimilarTitles(O[i], O[j])

(* C27 as stated: first-seen-wins, every removed article is similar to an
   earlier retained one, and of two similar articles of sources of
   different priority the one of the higher priority is kept and the other
   is not *)
C27_HigherPriorityOfSimilarKept ==
    (fq.pc = "done" /\ cfg.clients # <<>>) =>
        LET I == fq.all_articles
            O == fq.unique_articles
        IN  /\ FirstSeenWins
            /\ \A k \in 1..Len(I) : I[k] \notin Range(O) =>
                  \E j \in 1..(k - 1) : I[j] \in Range(O) /\ SimilarTitles(I[j], I[k])
            /\ \A a, b \in Range(I) :
                  (SimilarTitles(a, b)
                     /\ cfg.priority[a.api_source] < cfg.priority[b.api_source])
                  => (a \in Range(O) /\ b \notin Range(O))

(* C27 amended: first-seen-wins; every removed article has no title or is
   similar to an earlier retained one; and of two similar articles of
   sources of different priority, the one of the lower priority is removed
   whenever the one of the higher priority is retained *)
C27_FirstSeenWins ==
    (fq.pc = "done" /\ cfg.clients # <<>>) =>
        LET I == fq.all_articles
            O == fq.unique_articles
        IN  /\ FirstSeenWins
            /\ \A k \in 1..Len(I) : I[k] \notin Range(O) =>
                  \/ strip(I[k].title) = <<>>
                  \/ \E j \in 1..(k - 1) : I[j] \in Range(O) /\ SimilarTitles(I[j], I[k])
            /\ \A a, b \in Range(I) :
                  (SimilarTitles(a, b) /\ a \in Range(O)
                     /\ cfg.priority[a.api_source] < cfg.priority[b.api_source])
                  => b \notin Range(O)

(* C27 witness: an article was removed as similar to an earlier one of its
   priority or a higher one, and an article of a lower priority that is
   similar to the removed one, and to no retained one, was kept *)
C27_Witness ==
    /\ fq.pc = "done"
    /\ \E a, b \in Range(fq.all_articles) :
          /\ SimilarTitles(a, b)
          /\ cfg.priority[a.api_source] < cfg.priority[b.api_source]
          /\ a \notin Range(fq.unique_articles)
          /\ b \in Range(fq.unique_articles)
    /\ fq.ret[1].crossSourceDuplicatesRemoved >= 2

(* C29 as stated: every dispatched source is in exactly one of sourcesUsed
   and sourcesFailed *)
C29_UsedOrFailed ==
    (fq.pc = "done" /\ cfg.clients # <<>>) =>
        \A s \in Range(cfg.clients) :
            (s \in Range(fq.ret[1].sourcesUsed)) # (s \in FailedSources(fq.ret[1]))

(* C29 amended: no source is in both lists or twice in one; a source is in
   sourcesFailed exactly when its fetch gave an error result, in sourcesUsed
   exactly when it gave success with at least one article, and in neither
   when it gave success without articles *)
C29_UsedFailedOrNeither ==
    (fq.pc = "done" /\ cfg.clients # <<>>) =>
        LET r == fq.ret[1] IN
        /\ Cardinality(Range(r.sourcesUsed)) = Len(r.sourcesUsed)
        /\ Cardinality(FailedSources(r)) = Len(r.sourcesFailed)
        /\ Range(r.sourcesUsed) \cap FailedSources(r) = {}
        /\ \A s \in Range(cfg.clients) :
              LET result == fq.results[s][1] IN
              /\ s \in FailedSources(r) <=> result.status # "success"
              /\ s \in Range(r.sourcesUsed) <=>
                    (result.status = "success" /\ result.articles # <<>>)

(* C29 witness: of three sources one failed, one gave articles and one
   answered without articles and is in neither list *)
C29_Witness ==
    /\ fq.pc = "done"
    /\ cfg.clients # <<>>
    /\ Len(fq.ret[1].sourcesUsed) = 1
    /\ Len(fq.ret[1].sourcesFailed) = 1
    /\ \E s \in Range(cfg.clients) :
          /\ fq.results[s][1].status = "success"
          /\ fq.results[s][1].articles = <<>>
          /\ s \notin Range(fq.ret[1].sourcesUsed)
          /\ s \notin FailedSources(fq.ret[1])

(* C24: every response of /api/news carries a status, every response whose
   status is error carries a text that reads as a message, and a request
   served without configured sources gets status error *)
C24_ResponseAlwaysHasStatus ==
    api.pc = "done" =>
        LET r == api.ret[1] IN
        /\ api.ret # None
        /\ "status" \in r.keys
        /\ r.status \in {"success", "error"}
        /\ r.status = "error" =>
              \/ "message" \in r.keys /\ r.message # None /\ readable(r.message[1])
              \/ "error" \in r.keys /\ r.error # None /\ readable(r.error[1])
        /\ api.path = "no_sources" => r.status = "error"

(* C24 witness: a request met an exception whose text is empty, with
   articles of earlier requests in the table *)
C24_Witness ==
    /\ api.pc = "done"
    /\ api.path = "exception"
    /\ api.ret[1].message = Some(<<"News aggregation failed: ", "">>)
    /\ api.table # <<>>

(* C28: the gemini_analysis on an article of the response is the analysis
   the scorer produced for that article; an article that was not scored
   carries none *)
C28_AnalysisOfSameArticle ==
    api.pc = "done" =>
        \A k \in 1..Len(api.ret[1].articles) :
            LET entry == api.ret[1].articles[k] IN
            entry.gemini_analysis # None =>
                /\ entry.gemini_analysis[1].of = entry.article.url
                /\ \E i \in 1..Len(api.new_articles) :
                      /\ api.new_articles[i] = entry.article
                      /\ entry.gemini_analysis[1].position = i

(* C26: two runs of fetch_unified_news that were given the same provider
   responses and the same page size, under the same configuration, returned
   the same list of unique articles in the same order, and the same
   articles, whatever order the fetches of each run completed in *)
C26_SameResponsesSameList ==
    (fq.pc = "done" /\ fq.prev # None
       /\ fq.prev[1].answers = fq.answers /\ fq.prev[1].page_size = fq.page_size) =>
        /\ fq.unique_articles = fq.prev[1].unique_articles
        /\ fq.ret[1].articles = fq.prev[1].articles

(* C26 witness: the second of two runs with the same responses, in which
   the fetches completed in another order, articles of two sources are in
   the list and a duplicate across sources was removed *)
C26_Witness ==
    /\ fq.pc = "done"
    /\ fq.prev # None
    /\ fq.prev[1].answers = fq.answers
    /\ fq.prev[1].completed # fq.completed
    /\ fq.ret[1].crossSourceDuplicatesRemoved > 0
    /\ \E a, b \in Range(fq.unique_articles) : a.api_source # b.api_source

(* the invocation is inside the batch loop *)
InLoop(i) == pc[i] \in {"check", "sleep", "call", "record"}

(* the invocation has returned a result that has a status *)
Returned(i) ==
    pc[i] = "done" /\ ret[i] # None /\ ret[i][1].status \in {"success", "error"}

(* one external call for each batch: the calls issued are the batches begun,
   less the one whose call is still to come *)
OneCallPerBatch(i) ==
    InLoop(i) =>
        hist[svc[i]].issued =
            IF pc[i] \in {"sleep", "call"} THEN loc[i].total_batches - 1
            ELSE loc[i].total_batches

(* a sleep begins at the check of a batch, lasts at most the pacing
   interval and one second, and ends at the call of the same batch *)
OneBoundedSleep(i) ==
    /\ (pc[i] # "sleep" /\ pc'[i] = "sleep") =>
          /\ pc[i] = "check"
          /\ loc'[i].wake - now <= target_batch_interval + 1
    /\ (pc[i] = "sleep" /\ pc'[i] # "sleep") =>
          /\ pc'[i] = "call"
          /\ loc'[i].total_batches = loc[i].total_batches

(* the loop is left with a result that has a status, and with status error
   when the call, the parse or the geographic pass raised *)
LeavesWithStatus(i) ==
    (InLoop(i) /\ ~InLoop(i)') =>
        /\ Returned(i)'
        /\ pc[i] = "record"
        /\ hist'[svc[i]].recorded = hist[svc[i]].recorded => ret'[i][1].status = "error"

(* C30: analyze_articles_batch always ends with a result that has a status;
   for each batch it sleeps at most once, for at most the pacing interval
   and one second, and issues one external call at most; an exception of
   the call, the parse or the post-processing ends it with status error *)
C30_AlwaysReturnsStatus ==
    /\ [](OneCallPerBatch(1))
    /\ [][OneBoundedSleep(1)]_vars
    /\ [][LeavesWithStatus(1)]_vars
    /\ [](pc[1] = "done" => Returned(1))
    /\ (InLoop(1) ~> Returned(1))

(* C30 witness: an invocation over two batches returned success after it
   slept before the second call, which left the pacing interval and one
   second after the first *)
C30_Witness ==
    /\ Returned(1)
    /\ ret[1][1].status = "success"
    /\ ret[1][1].total_batches_processed = 2
    /\ hist[1].last_gap = Some(target_batch_interval + 1)

====
